---- MODULE Spec2Model ----
(***************************************************************************)
(* Render/cache/invalidation engine of freemap-outdoor-map: the tile       *)
(* processor (cache files, per-index-tile index files, invalidation        *)
(* register), the tile-processing worker in front of it, and the render    *)
(* worker pool.                                                            *)
(***************************************************************************)
EXTENDS Integers, Sequences, FiniteSets, TLC

\* ------------------------------------------------------------------ bounds
MaxZoom == 2        \* deepest zoom level of the modelled part of the quadtree
MaxY == 1           \* largest y of the modelled tiles (x is 0): siblings share {z}/0/
MaxTime == 1        \* timestamps handed to the processor are 0..MaxTime
MaxOps == 3         \* number of processor calls in one behaviour of Spec
MaxCacheOps == 4    \* number of processor calls in one behaviour of SpecCache
MaxIndexLen == 3    \* lines one index file may hold before saves stop appending
NumHandlers == 1    \* concurrent serve_tile requests in SpecActor
MaxInvalidations == 2   \* invalidations the watcher submits in SpecActor
QueueCap == 2       \* slots of the worker's channel in the model
ClockStep == 30     \* seconds one tick of the clock adds
MaxClock == 90      \* the clock stops here
NumSubmitters == 2  \* save_tile / invalidate_blocking calls in SpecShutdown
NumShutdowns == 2   \* calls of TileProcessingWorker::shutdown
NumWorkers == 1     \* worker_count of the render pool
NumRenders == 1     \* calls of RenderWorkerPool::render
NumPoolShutdowns == 1   \* calls of RenderWorkerPool::shutdown
MaxWorkers == 2     \* largest worker_count of the render pool in SpecPool
MaxRenders == 3     \* calls of RenderWorkerPool::render in SpecPool
NumFiles == 1       \* .tiles files the importer writes
MaxLines == 2       \* lines the importer writes into one file
MaxRequests == 2    \* tile requests serve_tile answers in SpecMediator
WordBits == 3       \* bits of a u32 in the quadkey conversions (32 in the code)
MaxEvents == 1      \* file-system events the watcher thread gets in SpecStop

\* ------------------------------------------------------ program constants
INVALIDATION_REGISTER_TTL == 60
INVALIDATION_REGISTER_PRUNE_INTERVAL == 30

Pow2(n) == IF n <= 0 THEN 1 ELSE 2 ^ n

Zooms == 0 .. MaxZoom
Times == 0 .. MaxTime
Scales == {1, 2}
Data == {"jpegA", "jpegB"}

\* ------------------------------------------------------- tile coordinates
TileCoord(z, x, y) == [zoom |-> z, x |-> x, y |-> y]

NoCoord == [zoom |-> 0 - 1, x |-> 0, y |-> 0]

Coords ==
    { TileCoord(z, 0, y) : z \in Zooms, y \in 0 .. MaxY } \cap
    { c \in [zoom : Zooms, x : {0}, y : 0 .. MaxY] : c.y < Pow2(c.zoom) }

parent(c) ==
    IF c.zoom = 0 THEN NoCoord
    ELSE TileCoord(c.zoom - 1, c.x \div 2, c.y \div 2)

ancestor_at_zoom(c, z) ==
    IF z >= c.zoom THEN NoCoord
    ELSE TileCoord(z, c.x \div Pow2(c.zoom - z), c.y \div Pow2(c.zoom - z))

is_ancestor_of(a, b) ==
    /\ a.zoom <= b.zoom
    /\ b.x \div Pow2(b.zoom - a.zoom) = a.x
    /\ b.y \div Pow2(b.zoom - a.zoom) = a.y

\* ------------------------------------------------------------------ state
VARIABLES
    config,     \* TileProcessingConfig: index_zoom, max_zoom, invalidate_min_zoom
    register,   \* invalidation_register: TileCoord -> SystemTime
    files,      \* cache files {z}/{x}/{y}@{scale}.jpeg -> bytes
    index,      \* index files {index_zoom}/{x}/{y}.index -> lines
    call,       \* the processor call that produced this state
    nOps,       \* processor calls made so far
    clock,      \* SystemTime::now(), in seconds
    last_prune, \* TileProcessor::last_prune
    queue,      \* the mpsc channel of the tile-processing worker
    http,       \* serve_tile requests: where each is, what it carries
    nInv,       \* invalidations the watcher has submitted
    processed,  \* latest invalidated_at the actor has handled, per coord
    tx,         \* TileProcessingInner::tx is Some
    handle,     \* TileProcessingInner::handle is Some
    handleLock, \* the shutdown call that holds the mutex of handle, or 0
    thread,     \* the tile-processing-worker thread: "running" or "exited"
    handled,    \* submitters whose message the processor has handled
    sub,        \* save_tile / invalidate_blocking calls
    shut,       \* calls of TileProcessingWorker::shutdown
    poolTx,     \* RenderWorkerPool::tx is Some
    poolQueue,  \* the mpsc channel of the render pool
    poolHandles,\* RenderWorkerPool::workers still holds the join handles
    workersLock,\* the shutdown call that holds the mutex of workers, or 0
    rxLock,     \* the worker that holds the mutex of the shared receiver, or 0
    worker,     \* render-worker threads: where each is, the task it renders
    rnd,        \* calls of RenderWorkerPool::render
    poolShut,   \* calls of RenderWorkerPool::shutdown
    fsys,       \* the .tiles files under the watched base directory
    imp,        \* the importer: how far it has written each file, and what
    events,     \* the channel of file-system events of the watcher thread
    watcher,    \* startup walk and watcher thread: where it is, what it holds
    submitted,  \* the invalidate_blocking calls made for expiration files
    codec,      \* a use of the quadkey conversions: inputs, build, results
    serve,      \* serve_tile: the AppState, the request at hand and its reply
    stop        \* start(): the two calls of shutdown_tile_workers, the watcher
                \* thread and its channel

procVars == <<config, register, files, index, call, nOps>>
actorVars == <<clock, last_prune, queue, http, nInv, processed>>
shutVars == <<tx, handle, handleLock, thread, handled, sub, shut>>
poolVars == <<poolTx, poolQueue, poolHandles, workersLock, rxLock, worker, rnd,
              poolShut>>

watchVars == <<fsys, imp, events, watcher, submitted>>

keyVars == <<codec>>

medVars == <<serve>>

stopVars == <<stop>>

vars ==
    <<procVars, actorVars, shutVars, poolVars, watchVars, keyVars, medVars,
      stopVars>>

\* ------------------------------------------------- invalidation register
duration_since(now, ts) == IF now >= ts THEN now - ts ELSE 0

\* mutant: an entry as old as the ttl is removed too
prune_invalidation_register_lt(reg, now, ttl) ==
    [c \in {d \in DOMAIN reg : duration_since(now, reg[d]) < ttl} |-> reg[c]]

prune_invalidation_register(reg, now, ttl) ==
    [c \in {d \in DOMAIN reg : duration_since(now, reg[d]) <= ttl} |-> reg[c]]

\* mutant: the last invalidation is stored whatever it carries
record_invalidation_last(reg, coord, invalidated_at) ==
    [c \in DOMAIN reg \cup {coord} |->
        IF c # coord THEN reg[c] ELSE invalidated_at]

record_invalidation(reg, coord, invalidated_at) ==
    [c \in DOMAIN reg \cup {coord} |->
        IF c # coord THEN reg[c]
        ELSE IF coord \notin DOMAIN reg THEN invalidated_at
        ELSE IF reg[coord] < invalidated_at THEN invalidated_at
        ELSE reg[coord]]

\* mutant: a render started at the instant of the invalidation is kept
RECURSIVE should_drop_save_after(_, _, _)
should_drop_save_after(reg, coord, render_started_at) ==
    IF coord \in DOMAIN reg /\ render_started_at > reg[coord] THEN TRUE
    ELSE IF parent(coord) # NoCoord
         THEN should_drop_save_after(reg, parent(coord), render_started_at)
         ELSE FALSE

RECURSIVE should_drop_save(_, _, _)
should_drop_save(reg, coord, render_started_at) ==
    IF coord \in DOMAIN reg /\ render_started_at >= reg[coord] THEN TRUE
    ELSE IF parent(coord) # NoCoord
         THEN should_drop_save(reg, parent(coord), render_started_at)
         ELSE FALSE

\* ------------------------------------------------------ paths and entries
DigitChars == <<"0", "1", "2", "3", "4", "5", "6", "7", "8", "9">>

RECURSIVE to_string(_)
to_string(n) ==
    IF n < 10 THEN <<DigitChars[n + 1]>>
    ELSE to_string(n \div 10) \o <<DigitChars[(n % 10) + 1]>>

starts_with(s, prefix) ==
    /\ Len(prefix) <= Len(s)
    /\ SubSeq(s, 1, Len(prefix)) = prefix

ends_with(s, suffix) ==
    /\ Len(suffix) <= Len(s)
    /\ SubSeq(s, Len(s) - Len(suffix) + 1, Len(s)) = suffix

\* {base}/{zoom}/{x}/{y}@{scale}.jpeg
tile_cache_path(coord, scale) ==
    [zoom |-> coord.zoom, x |-> coord.x,
     name |-> to_string(coord.y) \o <<"@">> \o to_string(scale) \o <<".jpeg">>]

\* {base}/{zoom}/{x}/{y}.index ; the index files are kept apart from the
\* cache files in the variable index, keyed by the index tile
index_file_path(index_coord) == index_coord

\* one line "{zoom}/{x}/{y}@{scale}" of an index file; nul tells that the
\* line starts with NUL bytes
format_index_entry(coord, scale) ==
    [zoom |-> coord.zoom, x |-> coord.x, y |-> coord.y, scale |-> scale,
     nul |-> FALSE]

\* Ok((coord, scale)) or Err: a line that starts with NUL bytes has no u8 zoom
parse_index_entry(entry) ==
    IF entry.nul THEN [ok |-> FALSE, coord |-> NoCoord, scale |-> 0]
    ELSE [ok |-> TRUE, coord |-> TileCoord(entry.zoom, entry.x, entry.y),
          scale |-> entry.scale]

\* --------------------------------------------------------- tile processor
append_index_entry(idx, cfg, coord, scale) ==
    IF coord.zoom <= cfg.index_zoom THEN idx
    ELSE LET index_coord == ancestor_at_zoom(coord, cfg.index_zoom) IN
         IF index_coord = NoCoord THEN idx
         ELSE [idx EXCEPT ![index_file_path(index_coord)] =
                   Append(@, format_index_entry(coord, scale))]

delete_tile_files(fls, coord) ==
    LET prefix == to_string(coord.y) \o <<"@">>
        doomed == { p \in DOMAIN fls :
                      /\ p.zoom = coord.zoom
                      /\ p.x = coord.x
                      /\ starts_with(p.name, prefix)
                      /\ ends_with(p.name, <<".jpeg">>) }
    IN  [p \in DOMAIN fls \ doomed |-> fls[p]]

\* mutant of delete_parent_walk: the climb stops one level too late
RECURSIVE delete_parent_walk_ge(_, _, _)
delete_parent_walk_ge(fls, cfg, coord) ==
    IF coord.zoom >= cfg.invalidate_min_zoom
    THEN LET p == parent(coord) IN
         IF p = NoCoord THEN fls
         ELSE IF p.zoom > cfg.index_zoom THEN delete_parent_walk_ge(fls, cfg, p)
         ELSE delete_parent_walk_ge(delete_tile_files(fls, p), cfg, p)
    ELSE fls

\* the loop of delete_parent_tiles
RECURSIVE delete_parent_walk(_, _, _)
delete_parent_walk(fls, cfg, coord) ==
    IF coord.zoom > cfg.invalidate_min_zoom
    THEN LET p == parent(coord) IN
         IF p = NoCoord THEN fls
         ELSE IF p.zoom > cfg.index_zoom THEN delete_parent_walk(fls, cfg, p)
         ELSE delete_parent_walk(delete_tile_files(fls, p), cfg, p)
    ELSE fls

delete_parent_tiles(fls, cfg, coord) ==
    IF cfg.invalidate_min_zoom > cfg.index_zoom THEN fls
    ELSE delete_parent_walk(fls, cfg, coord)

\* the bytes of the rewritten index file: set_len(0) leaves the cursor of the
\* handle at the old end of file, so the retained lines are written behind a
\* run of NUL bytes which becomes the head of the first line
rewritten_index(retained) ==
    IF retained = <<>> THEN <<>>
    ELSE <<[retained[1] EXCEPT !.nul = TRUE]>> \o Tail(retained)

\* mutant of process_index_tile: only the first covered line is removed
process_index_tile_first_only(fs, index_coord, target) ==
    IF index_file_path(index_coord) \notin DOMAIN fs.index THEN fs
    ELSE
    LET contents == fs.index[index_file_path(index_coord)]
        covered(entry) ==
            /\ parse_index_entry(entry).ok
            /\ is_ancestor_of(target, parse_index_entry(entry).coord)
        removed == { i \in 1 .. Len(contents) : covered(contents[i]) }
        first == CHOOSE i \in removed : \A j \in removed : i <= j
        retained == SubSeq(contents, 1, first - 1)
                    \o SubSeq(contents, first + 1, Len(contents))
        path == tile_cache_path(parse_index_entry(contents[first]).coord,
                                parse_index_entry(contents[first]).scale)
    IN  IF removed = {} THEN fs
        ELSE [files |-> [p \in DOMAIN fs.files \ {path} |-> fs.files[p]],
              index |-> [fs.index EXCEPT ![index_file_path(index_coord)] =
                            rewritten_index(retained)]]

process_index_tile(fs, index_coord, target) ==
    IF index_file_path(index_coord) \notin DOMAIN fs.index THEN fs
    ELSE
    LET contents == fs.index[index_file_path(index_coord)]
        covered(entry) ==
            /\ parse_index_entry(entry).ok
            /\ is_ancestor_of(target, parse_index_entry(entry).coord)
        removed == { i \in 1 .. Len(contents) : covered(contents[i]) }
        retained == SelectSeq(contents, LAMBDA e : ~covered(e))
        paths == { tile_cache_path(parse_index_entry(contents[i]).coord,
                                   parse_index_entry(contents[i]).scale) :
                   i \in removed }
    IN  IF removed = {} THEN fs
        ELSE [files |-> [p \in DOMAIN fs.files \ paths |-> fs.files[p]],
              index |-> [fs.index EXCEPT ![index_file_path(index_coord)] =
                            rewritten_index(retained)]]

RECURSIVE index_tiles_loop(_, _, _, _, _)
index_tiles_loop(fs, cfg, invalidate_coord, factor, k) ==
    IF k >= factor * factor THEN fs
    ELSE index_tiles_loop(
             process_index_tile(
                 fs,
                 TileCoord(cfg.index_zoom,
                           invalidate_coord.x * factor + (k \div factor),
                           invalidate_coord.y * factor + (k % factor)),
                 invalidate_coord),
             cfg, invalidate_coord, factor, k + 1)

delete_indexed_tiles(fs, cfg, invalidate_coord) ==
    LET index_coord == ancestor_at_zoom(invalidate_coord, cfg.index_zoom) IN
    IF index_coord # NoCoord
    THEN process_index_tile(fs, index_coord, invalidate_coord)
    ELSE index_tiles_loop(fs, cfg, invalidate_coord,
                          Pow2(cfg.index_zoom - invalidate_coord.zoom), 0)

\* st is the processor with its disk: [register, files, index]
handle_save_tile(st, cfg, data, coord, scale, render_started_at) ==
    IF should_drop_save(st.register, coord, render_started_at) THEN st
    ELSE [register |-> st.register,
          index |-> append_index_entry(st.index, cfg, coord, scale),
          files |-> [p \in DOMAIN st.files \cup {tile_cache_path(coord, scale)} |->
                        IF p = tile_cache_path(coord, scale) THEN data
                        ELSE st.files[p]]]

handle_invalidation(st, cfg, coord, invalidated_at) ==
    LET reg == record_invalidation(st.register, coord, invalidated_at) IN
    IF coord.zoom <= cfg.max_zoom
    THEN LET fs == delete_indexed_tiles([files |-> st.files, index |-> st.index],
                                        cfg, coord)
         IN  [register |-> reg,
              index |-> fs.index,
              files |-> delete_parent_tiles(fs.files, cfg, coord)]
    ELSE [register |-> reg, index |-> st.index, files |-> st.files]

\* ------------------------------------------ Spec: calls of the processor
processor == [register |-> register, files |-> files, index |-> index]

Configs ==
    [index_zoom : 0 .. MaxZoom - 1, max_zoom : {MaxZoom - 1, MaxZoom},
     invalidate_min_zoom : Zooms]

NoCall ==
    [op |-> "new", coord |-> NoCoord, scale |-> 0, t |-> 0, data |-> "",
     out |-> "nothing"]

Handlers == 1 .. NumHandlers
Submitters == 1 .. NumSubmitters
Shutdowns == 1 .. NumShutdowns
Workers == 1 .. NumWorkers
Renders == 1 .. NumRenders
PoolShutdowns == 1 .. NumPoolShutdowns

\* the files {p}.tiles under the watched base directory
Paths == 1 .. NumFiles

NoFile == [exists |-> FALSE, data |-> <<>>]

\* before process_existing_expiration_files: nothing collected, no file in
\* process
IdleWatcher ==
    [phase |-> "boot", pending |-> <<>>, pc |-> "idle", path |-> 0, tries |-> 0,
     size_before |-> 0, value |-> <<>>, read_at |-> 0, invalidated_at |-> 0,
     lineNo |-> 0]

\* a call of save_tile, invalidate_blocking or render: where it is, what it
\* returned, what the reply channel holds, and how far shutdown() had got
\* when the call read the sender ("none", "invoked" or "taken")
IdleCall == [pc |-> "idle", result |-> "none", resp |-> "none", after |-> "none"]

IdleRequest ==
    [pc |-> "idle", coord |-> NoCoord, scale |-> 0, render_started_at |-> 0,
     data |-> ""]

\* no use of the quadkey conversions
IdleCodec ==
    [mode |-> "none", build |-> "release", pc |-> "done", a |-> NoCoord,
     b |-> NoCoord, value |-> <<>>, ka |-> [ok |-> FALSE, out |-> <<>>],
     kb |-> [ok |-> FALSE, out |-> <<>>],
     back |-> [ok |-> FALSE, out |-> NoCoord],
     walk |-> NoCoord, reached |-> FALSE]

\* TileProcessor::new, the worker around it and the requests, all idle
InitServer ==
    /\ config \in Configs
    /\ register = <<>>
    /\ files = <<>>
    /\ index = [c \in Coords |-> <<>>]
    /\ call = NoCall
    /\ nOps = 0
    /\ clock = 0
    /\ last_prune = 0
    /\ queue = <<>>
    /\ http = [h \in Handlers |-> IdleRequest]
    /\ nInv = 0
    /\ processed = <<>>
    /\ tx = TRUE
    /\ handle = TRUE
    /\ handleLock = 0
    /\ thread = "running"
    /\ handled = {}
    /\ sub = [s \in Submitters |-> IdleCall]
    /\ shut = [c \in Shutdowns |-> "idle"]
    /\ fsys = [p \in Paths |-> NoFile]
    /\ imp = [p \in Paths |-> [stage |-> "none", text |-> <<>>]]
    /\ events = <<>>
    /\ watcher = IdleWatcher
    /\ submitted = <<>>

\* the time of a step that has not been taken
NoTime == 0 - 1

\* no tile request yet, under an AppState without cache, coverage or worker
IdleServe ==
    [state |-> [tile_cache_base_path |-> FALSE, serve_cached |-> FALSE,
                tile_worker |-> FALSE, coverage_geometry |-> FALSE],
     n |-> 0, pc |-> "idle", coord |-> NoCoord, scale |-> 0, ext |-> "none",
     relation |-> "none", cache |-> "none", cache_read_at |-> NoTime,
     render_started_at |-> NoTime, submitted_at |-> NoTime,
     render_read_at |-> NoTime, rendered |-> "none", renders |-> 0,
     save |-> "none", status |-> 0, body |-> ""]

\* a call of shutdown_tile_workers that has not begun; watcher and worker
\* tell what the call took out of the two Options
IdleInvoker == [pc |-> "idle", watcher |-> FALSE, worker |-> FALSE]

\* start() without a watcher and a worker to stop: both Options are None,
\* no watcher thread runs
IdleStop ==
    [tile_invalidation_watcher |-> FALSE, tile_processing_worker |-> FALSE,
     inv |-> [i \in Shutdowns |-> IdleInvoker], rx |-> <<>>,
     run_watcher |-> "exited", events |-> 0, enqueue |-> "none"]

InitProcessing ==
    /\ InitServer
    /\ codec = IdleCodec
    /\ serve = IdleServe
    /\ stop = IdleStop

\* RenderWorkerPool::new(.., worker_count, ..) with the given calls of render
\* to come: worker_count threads are spawned, each about to lock the receiver
RenderWorkerPoolNew(count, renders) ==
    /\ poolTx = TRUE
    /\ poolQueue = <<>>
    /\ poolHandles = TRUE
    /\ workersLock = 0
    /\ rxLock = 0
    /\ worker = [w \in 1 .. count |-> [pc |-> "lock", task |-> 0]]
    /\ rnd = [r \in renders |-> IdleCall]
    /\ poolShut = [c \in PoolShutdowns |-> "idle"]

Init ==
    /\ InitProcessing
    /\ RenderWorkerPoolNew(NumWorkers, Renders)

IndexHasRoom(coord) ==
    IF coord.zoom <= config.index_zoom THEN TRUE
    ELSE Len(index[ancestor_at_zoom(coord, config.index_zoom)]) < MaxIndexLen

\* a SaveTile message reaches the processor only for a tile serve_tile has
\* rendered, hence with coord.zoom <= max_zoom
SaveTileCall(datas, times, maxOps) ==
    \E data \in datas, coord \in Coords, scale \in Scales, t \in times :
        /\ nOps < maxOps
        /\ coord.zoom <= config.max_zoom
        /\ IndexHasRoom(coord)
        /\ LET st == handle_save_tile(processor, config, data, coord, scale, t) IN
           /\ register' = st.register
           /\ files' = st.files
           /\ index' = st.index
        /\ call' = [op |-> "save", coord |-> coord, scale |-> scale, t |-> t,
                    data |-> data,
                    out |-> IF should_drop_save(register, coord, t)
                            THEN "dropped" ELSE "written"]
        /\ nOps' = nOps + 1
        /\ UNCHANGED <<stopVars, medVars, keyVars, watchVars, config, actorVars, shutVars, poolVars>>

InvalidationCall(times, maxOps) ==
    \E coord \in Coords, t \in times :
        /\ nOps < maxOps
        /\ LET st == handle_invalidation(processor, config, coord, t) IN
           /\ register' = st.register
           /\ files' = st.files
           /\ index' = st.index
           /\ call' = [op |-> "invalidate", coord |-> coord, scale |-> 0,
                       t |-> t, data |-> "",
                       out |-> IF st.files # files \/ st.index # index
                               THEN "purged" ELSE "nothing"]
        /\ nOps' = nOps + 1
        /\ UNCHANGED <<stopVars, medVars, keyVars, watchVars, config, actorVars, shutVars, poolVars>>

HandleSaveTile == SaveTileCall(Data, Times, MaxOps)

HandleInvalidation == InvalidationCall(Times, MaxOps)

PruneInvalidationRegister ==
    \E now \in Times, ttl \in Times :
        /\ nOps < MaxOps
        /\ register' = prune_invalidation_register(register, now, ttl)
        /\ call' = [op |-> "prune", coord |-> NoCoord, scale |-> ttl, t |-> now,
                    data |-> "",
                    out |-> IF register' # register THEN "pruned" ELSE "nothing"]
        /\ nOps' = nOps + 1
        /\ UNCHANGED <<stopVars, medVars, keyVars, watchVars, config, files, index, actorVars, shutVars, poolVars>>

Next == HandleSaveTile \/ HandleInvalidation \/ PruneInvalidationRegister

Spec == Init /\ [][Next]_vars

\* ------------------------- SpecCache: the cache and its index under purges
\* The same two handlers, every render started at 0 and every invalidation
\* stamped MaxTime, which lets each save through should_drop_save: the
\* files and index lines reached are those of any series of saves and purges.
CacheSave == SaveTileCall({"jpegA"}, {0}, MaxCacheOps)

CachePurge == InvalidationCall({MaxTime}, MaxCacheOps)

NextCache == CacheSave \/ CachePurge

SpecCache == Init /\ [][NextCache]_vars

\* ------------- SpecActor: serve_tile requests, the watcher and the actor
Message(kind, from, coord, scale, t, data) ==
    [kind |-> kind, from |-> from, coord |-> coord, scale |-> scale, t |-> t,
     data |-> data]

\* serve_tile up to the capture of render_started_at: the zoom and scale
\* are accepted, the cache read misses, the clock is read
HttpMiss(h) ==
    \E coord \in Coords, scale \in Scales :
        /\ http[h].pc = "idle"
        /\ coord.zoom <= config.max_zoom
        /\ tile_cache_path(coord, scale) \notin DOMAIN files
        /\ http' = [http EXCEPT ![h] =
                       [pc |-> "render", coord |-> coord, scale |-> scale,
                        render_started_at |-> clock, data |-> ""]]
        /\ UNCHANGED <<stopVars, medVars, keyVars, watchVars, procVars, clock, last_prune, queue, nInv, processed, shutVars,
                   poolVars>>

\* render_worker_pool.render(..).await returns Ok(rendered)
HttpRender(h) ==
    /\ http[h].pc = "render"
    /\ http' = [http EXCEPT ![h].pc = "save", ![h].data = "jpegA"]
    /\ UNCHANGED <<stopVars, medVars, keyVars, watchVars, procVars, clock, last_prune, queue, nInv, processed, shutVars,
                   poolVars>>

\* tile_worker.save_tile(..).await: waits for a free slot of the channel
HttpSave(h) ==
    /\ http[h].pc = "save"
    /\ Len(queue) < QueueCap
    /\ queue' = Append(queue, Message("SaveTile", 0, http[h].coord, http[h].scale,
                                      http[h].render_started_at, http[h].data))
    /\ http' = [http EXCEPT ![h].pc = "done"]
    /\ UNCHANGED <<stopVars, medVars, keyVars, watchVars, procVars, clock, last_prune, nInv, processed, shutVars,
                   poolVars>>

\* the watcher submits Invalidate{coord, invalidated_at = clock}
WatcherInvalidate ==
    \E coord \in Coords :
        /\ nInv < MaxInvalidations
        /\ Len(queue) < QueueCap
        /\ queue' = Append(queue, Message("Invalidate", 0, coord, 0, clock, ""))
        /\ nInv' = nInv + 1
        /\ UNCHANGED <<stopVars, medVars, keyVars, watchVars, procVars, clock, last_prune, http, processed, shutVars,
                       poolVars>>

\* one turn of the actor loop: receive, prune when due, dispatch
ActorReceive ==
    /\ thread = "running"
    /\ queue # <<>>
    /\ LET message == Head(queue)
           due == duration_since(clock, last_prune)
                      >= INVALIDATION_REGISTER_PRUNE_INTERVAL
           pruned == IF due
                     THEN prune_invalidation_register(
                              register, clock, INVALIDATION_REGISTER_TTL)
                     ELSE register
           before == [register |-> pruned, files |-> files, index |-> index]
           st == IF message.kind = "SaveTile"
                 THEN handle_save_tile(before, config, message.data,
                                       message.coord, message.scale, message.t)
                 ELSE handle_invalidation(before, config, message.coord,
                                          message.t)
       IN  /\ queue' = Tail(queue)
           /\ last_prune' = IF due THEN clock ELSE last_prune
           /\ register' = st.register
           /\ files' = st.files
           /\ index' = st.index
           /\ call' = [op |-> IF message.kind = "SaveTile" THEN "save"
                              ELSE "invalidate",
                       coord |-> message.coord, scale |-> message.scale,
                       t |-> message.t, data |-> message.data,
                       out |-> IF st.files # files \/ st.index # index
                               THEN "changed" ELSE "nothing"]
           /\ handled' = handled \cup ({message.from} \cap Submitters)
           /\ processed' =
                 IF message.kind = "Invalidate"
                 THEN record_invalidation(processed, message.coord, message.t)
                 ELSE processed
    /\ nOps' = nOps + 1
    /\ UNCHANGED <<stopVars, medVars, keyVars, watchVars, config, clock, http, nInv, tx, handle, handleLock, thread, sub,
                   shut, poolVars>>

Tick ==
    /\ clock + ClockStep <= MaxClock
    /\ clock' = clock + ClockStep
    /\ UNCHANGED <<stopVars, medVars, keyVars, watchVars, procVars, last_prune, queue, http, nInv, processed, shutVars,
                   poolVars>>

NextActor ==
    \/ \E h \in Handlers : HttpMiss(h)
    \/ \E h \in Handlers : HttpRender(h)
    \/ \E h \in Handlers : HttpSave(h)
    \/ WatcherInvalidate
    \/ ActorReceive
    \/ Tick

\* the interleavings are explored for the configurations that purge up to
\* the root and serve every zoom of the model
InitActor ==
    /\ Init
    /\ config.max_zoom = MaxZoom
    /\ config.invalidate_min_zoom = 0

SpecActor == InitActor /\ [][NextActor]_vars

\* ------------------------------------------------ expiration file texts
\* texts are sequences of characters

\* str::lines: the pieces between line feeds; a final piece without a line
\* feed is a line too, an empty final piece is not
RECURSIVE lines(_)
lines(text) ==
    IF text = <<>> THEN <<>>
    ELSE LET feeds == {i \in 1 .. Len(text) : text[i] = "\n"}
         IN  IF feeds = {} THEN <<text>>
             ELSE LET i == CHOOSE j \in feeds : \A k \in feeds : j <= k
                  IN  <<SubSeq(text, 1, i - 1)>>
                          \o lines(SubSeq(text, i + 1, Len(text)))

\* str::trim for the white space of the model, the blank
RECURSIVE trim(_)
trim(text) ==
    IF text = <<>> THEN text
    ELSE IF Head(text) = " " THEN trim(Tail(text))
    ELSE IF text[Len(text)] = " " THEN trim(SubSeq(text, 1, Len(text) - 1))
    ELSE text

\* str::split('/'): at least one piece, pieces may be empty
RECURSIVE split(_)
split(text) ==
    LET bars == {i \in 1 .. Len(text) : text[i] = "/"}
    IN  IF bars = {} THEN <<text>>
        ELSE LET i == CHOOSE j \in bars : \A k \in bars : j <= k
             IN  <<SubSeq(text, 1, i - 1)>>
                     \o split(SubSeq(text, i + 1, Len(text)))

DigitValue(ch) == CHOOSE d \in 0 .. 9 : DigitChars[d + 1] = ch

IsDigit(ch) == \E d \in 0 .. 9 : DigitChars[d + 1] = ch

U8Max == 255

RECURSIVE DigitsValue(_)
DigitsValue(digits) ==
    IF digits = <<>> THEN 0
    ELSE DigitsValue(SubSeq(digits, 1, Len(digits) - 1)) * 10
             + DigitValue(digits[Len(digits)])

\* str::parse::<u8>: an optional plus sign, then one or more digits, the
\* value at most u8::MAX
parse_u8(text) ==
    LET digits == IF text # <<>> /\ Head(text) = "+" THEN Tail(text) ELSE text
    IN  IF /\ digits # <<>>
           /\ \A i \in 1 .. Len(digits) : IsDigit(digits[i])
           /\ DigitsValue(digits) <= U8Max
        THEN [ok |-> TRUE, value |-> DigitsValue(digits)]
        ELSE [ok |-> FALSE, value |-> 0]

\* str::parse::<u32>: the same; the numbers in the texts of the model are
\* far below u32::MAX, so the range check never fails
parse_u32(text) ==
    LET digits == IF text # <<>> /\ Head(text) = "+" THEN Tail(text) ELSE text
    IN  IF /\ digits # <<>>
           /\ \A i \in 1 .. Len(digits) : IsDigit(digits[i])
        THEN [ok |-> TRUE, value |-> DigitsValue(digits)]
        ELSE [ok |-> FALSE, value |-> 0]

\* impl FromStr for TileCoord: exactly three pieces zoom/x/y
from_str(text) ==
    LET pieces == split(text)
        zoom == parse_u8(pieces[1])
        x == parse_u32(pieces[2])
        y == parse_u32(pieces[3])
    IN  IF Len(pieces) = 3 /\ zoom.ok /\ x.ok /\ y.ok
        THEN [ok |-> TRUE, coord |-> TileCoord(zoom.value, x.value, y.value)]
        ELSE [ok |-> FALSE, coord |-> NoCoord]

\* ------------------------------------------ shutdown of worker and pool
\* SpecShutdown: save_tile and invalidate_blocking calls, shutdown() calls and
\* the actor thread of the tile-processing worker; render calls, worker
\* threads and shutdown() calls of the render pool. Every statement that
\* takes a mutex is one step.

\* save_tile is called by submitter 1, invalidate_blocking by the others
SubmitKind(s) == IF s = 1 THEN "SaveTile" ELSE "Invalidate"

\* how far the shutdown() calls have got: none invoked, one invoked but the
\* sender still in place, or the sender taken
ShutdownStage(calls) ==
    IF \E c \in DOMAIN calls : calls[c] \in {"lock", "join", "returned"}
    THEN "taken"
    ELSE IF \E c \in DOMAIN calls : calls[c] # "idle" THEN "invoked"
         ELSE "none"

\* queue_size of RenderWorkerPool::new
worker_count == Len(worker)

queue_size == (IF worker_count > 1 THEN worker_count ELSE 1) * 2

\* the receiver is shared by the worker threads alone: it is dropped, and the
\* channel closed, when the last of them has ended
ReceiverDropped ==
    \A w \in DOMAIN worker : worker[w].pc \in {"exited", "panicked"}

\* save_tile / invalidate_blocking: lock tx, clone the sender or fail
SubmitCall(s) ==
    /\ sub[s].pc = "idle"
    /\ sub' = [sub EXCEPT ![s] =
                   IF tx
                   THEN [@ EXCEPT !.pc = "send",
                                  !.after = ShutdownStage(shut)]
                   ELSE [@ EXCEPT !.pc = "done", !.result = "QueueClosed",
                                  !.after = ShutdownStage(shut)]]
    /\ UNCHANGED <<stopVars, medVars, keyVars, watchVars, procVars, actorVars, tx, handle, handleLock, thread, handled,
                   shut, poolVars>>

\* mutant: the send does not wait for a free slot
SubmitSend_unbounded(s) ==
    /\ sub[s].pc = "send"
    /\ queue' = Append(queue, Message(SubmitKind(s), s, TileCoord(MaxZoom, 0, 0),
                                      1, 0, "jpegA"))
    /\ sub' = [sub EXCEPT ![s].pc = "done", ![s].result = "Ok"]
    /\ UNCHANGED <<stopVars, medVars, keyVars, watchVars, procVars, clock, last_prune, http, nInv, processed, tx, handle,
                   handleLock, thread, handled, shut, poolVars>>

\* tx.send(..).await / tx.blocking_send(..): fails when the receiver is gone,
\* else waits for a free slot; then the clone of the sender is dropped
SubmitSend(s) ==
    /\ sub[s].pc = "send"
    /\ IF thread = "exited"
       THEN /\ sub' = [sub EXCEPT ![s].pc = "done", ![s].result = "QueueClosed"]
            /\ UNCHANGED queue
       ELSE /\ Len(queue) < QueueCap
            /\ queue' = Append(queue, Message(SubmitKind(s), s,
                                              TileCoord(MaxZoom, 0, 0), 1, 0,
                                              "jpegA"))
            /\ sub' = [sub EXCEPT ![s].pc = "done", ![s].result = "Ok"]
    /\ UNCHANGED <<stopVars, medVars, keyVars, watchVars, procVars, clock, last_prune, http, nInv, processed, tx, handle,
                   handleLock, thread, handled, shut, poolVars>>

\* mutant: the actor loop ends as soon as the worker's sender is gone
ActorExit_on_take ==
    /\ thread = "running"
    /\ ~tx
    /\ thread' = "exited"
    /\ UNCHANGED <<stopVars, medVars, keyVars, watchVars, procVars, actorVars, tx, handle, handleLock, handled, sub,
                   shut, poolVars>>

\* blocking_recv returns None: the queue is empty and every sender, the
\* worker's and each clone held by a call, has been dropped
ActorExit ==
    /\ thread = "running"
    /\ queue = <<>>
    /\ ~tx
    /\ \A s \in Submitters : sub[s].pc # "send"
    /\ thread' = "exited"
    /\ UNCHANGED <<stopVars, medVars, keyVars, watchVars, procVars, actorVars, tx, handle, handleLock, handled, sub,
                   shut, poolVars>>

\* shutdown() is invoked
ShutdownCall(c) ==
    /\ shut[c] = "idle"
    /\ shut' = [shut EXCEPT ![c] = "take"]
    /\ UNCHANGED <<stopVars, medVars, keyVars, watchVars, procVars, actorVars, tx, handle, handleLock, thread, handled,
                   sub, poolVars>>

\* mutant: the sender is cloned and the clone dropped, tx keeps its sender
ShutdownTake_clone(c) ==
    /\ shut[c] = "take"
    /\ shut' = [shut EXCEPT ![c] = "lock"]
    /\ UNCHANGED <<stopVars, medVars, keyVars, watchVars, procVars, actorVars, tx, handle, handleLock, thread, handled,
                   sub, poolVars>>

\* let tx = self.inner.tx.lock().unwrap().take(); drop(tx);
ShutdownTake(c) ==
    /\ shut[c] = "take"
    /\ tx' = FALSE
    /\ shut' = [shut EXCEPT ![c] = "lock"]
    /\ UNCHANGED <<stopVars, medVars, keyVars, watchVars, procVars, actorVars, handle, handleLock, thread, handled, sub,
                   poolVars>>

\* self.inner.handle.lock().unwrap().take(): the guard lives until the end
\* of the if-let, so it is held while the thread is joined
ShutdownLock(c) ==
    /\ shut[c] = "lock"
    /\ handleLock = 0
    /\ IF handle
       THEN /\ handle' = FALSE
            /\ handleLock' = c
            /\ shut' = [shut EXCEPT ![c] = "join"]
       ELSE /\ shut' = [shut EXCEPT ![c] = "returned"]
            /\ UNCHANGED <<handle, handleLock>>
    /\ UNCHANGED <<stopVars, medVars, keyVars, watchVars, procVars, actorVars, tx, thread, handled, sub, poolVars>>

\* handle.join() returns when the thread has exited; the guard is released
ShutdownJoin(c) ==
    /\ shut[c] = "join"
    /\ thread = "exited"
    /\ handleLock' = 0
    /\ shut' = [shut EXCEPT ![c] = "returned"]
    /\ UNCHANGED <<stopVars, medVars, keyVars, watchVars, procVars, actorVars, tx, handle, thread, handled, sub,
                   poolVars>>

\* RenderWorkerPool::render: lock tx, clone the sender or fail
RenderCall(r) ==
    /\ rnd[r].pc = "idle"
    /\ rnd' = [rnd EXCEPT ![r] =
                   IF poolTx
                   THEN [@ EXCEPT !.pc = "send",
                                  !.after = ShutdownStage(poolShut)]
                   ELSE [@ EXCEPT !.pc = "done", !.result = "QueueClosed",
                                  !.after = ShutdownStage(poolShut)]]
    /\ UNCHANGED <<stopVars, medVars, keyVars, watchVars, procVars, actorVars, shutVars, poolTx, poolQueue, poolHandles,
                   workersLock, rxLock, worker, poolShut>>

\* tx.send(RenderTask{..}).await: fails when the receiver is gone, else waits
\* for a free slot of the queue
RenderSend(r) ==
    /\ rnd[r].pc = "send"
    /\ IF ReceiverDropped
       THEN /\ rnd' = [rnd EXCEPT ![r].pc = "done", ![r].result = "QueueClosed"]
            /\ UNCHANGED poolQueue
       ELSE /\ Len(poolQueue) < queue_size
            /\ poolQueue' = Append(poolQueue, r)
            /\ rnd' = [rnd EXCEPT ![r].pc = "wait"]
    /\ UNCHANGED <<stopVars, medVars, keyVars, watchVars, procVars, actorVars, shutVars, poolTx, poolHandles,
                   workersLock, rxLock, worker, poolShut>>

\* resp_rx.await?: the reply of the worker is the result of render; a reply
\* channel dropped without a reply is RecvError
RenderReply(r) ==
    /\ rnd[r].pc = "wait"
    /\ rnd[r].resp # "none"
    /\ rnd' = [rnd EXCEPT ![r].pc = "done",
                           ![r].result = IF rnd[r].resp = "dropped"
                                         THEN "RecvError" ELSE rnd[r].resp]
    /\ UNCHANGED <<stopVars, medVars, keyVars, watchVars, procVars, actorVars, shutVars, poolTx, poolQueue, poolHandles,
                   workersLock, rxLock, worker, poolShut>>

\* a worker takes the mutex of the shared receiver
WorkerLock(w) ==
    /\ worker[w].pc = "lock"
    /\ rxLock = 0
    /\ rxLock' = w
    /\ worker' = [worker EXCEPT ![w].pc = "recv"]
    /\ UNCHANGED <<stopVars, medVars, keyVars, watchVars, procVars, actorVars, shutVars, poolTx, poolQueue, poolHandles,
                   workersLock, rnd, poolShut>>

\* mutant: the received task stays in the channel
WorkerRecv_peek(w) ==
    /\ worker[w].pc = "recv"
    /\ poolQueue # <<>>
    /\ rxLock' = 0
    /\ worker' = [worker EXCEPT ![w] = [pc |-> "render", task |-> Head(poolQueue)]]
    /\ UNCHANGED <<stopVars, medVars, keyVars, watchVars, procVars, actorVars, shutVars, poolTx, poolQueue, poolHandles,
                   workersLock, rnd, poolShut>>

\* guard.blocking_recv() returns a task; the guard is released
WorkerRecv(w) ==
    /\ worker[w].pc = "recv"
    /\ poolQueue # <<>>
    /\ poolQueue' = Tail(poolQueue)
    /\ rxLock' = 0
    /\ worker' = [worker EXCEPT ![w] = [pc |-> "render", task |-> Head(poolQueue)]]
    /\ UNCHANGED <<stopVars, medVars, keyVars, watchVars, procVars, actorVars, shutVars, poolTx, poolHandles,
                   workersLock, rnd, poolShut>>

\* mutant: the worker leaves its loop as soon as the pool's sender is gone
WorkerBreak_on_take(w) ==
    /\ worker[w].pc = "recv"
    /\ ~poolTx
    /\ rxLock' = 0
    /\ worker' = [worker EXCEPT ![w].pc = "exited"]
    /\ UNCHANGED <<stopVars, medVars, keyVars, watchVars, procVars, actorVars, shutVars, poolTx, poolQueue, poolHandles,
                   workersLock, rnd, poolShut>>

\* guard.blocking_recv() returns None, the worker leaves its loop
WorkerBreak(w) ==
    /\ worker[w].pc = "recv"
    /\ poolQueue = <<>>
    /\ ~poolTx
    /\ \A r \in DOMAIN rnd : rnd[r].pc # "send"
    /\ rxLock' = 0
    /\ worker' = [worker EXCEPT ![w].pc = "exited"]
    /\ UNCHANGED <<stopVars, medVars, keyVars, watchVars, procVars, actorVars, shutVars, poolTx, poolQueue, poolHandles,
                   workersLock, rnd, poolShut>>

\* the worker renders the task and sends the result on its reply channel
WorkerRender(w) ==
    /\ worker[w].pc = "render"
    /\ \E result \in {"Ok", "RenderError"} :
           rnd' = [rnd EXCEPT ![worker[w].task].resp = result]
    /\ worker' = [worker EXCEPT ![w] = [pc |-> "lock", task |-> 0]]
    /\ UNCHANGED <<stopVars, medVars, keyVars, watchVars, procVars, actorVars, shutVars, poolTx, poolQueue, poolHandles,
                   workersLock, rxLock, poolShut>>

\* RenderWorkerPool::shutdown is invoked
PoolShutdownCall(c) ==
    /\ poolShut[c] = "idle"
    /\ poolShut' = [poolShut EXCEPT ![c] = "take"]
    /\ UNCHANGED <<stopVars, medVars, keyVars, watchVars, procVars, actorVars, shutVars, poolTx, poolQueue, poolHandles,
                   workersLock, rxLock, worker, rnd>>

\* let tx = self.tx.lock().unwrap().take(); drop(tx);
PoolShutdownTake(c) ==
    /\ poolShut[c] = "take"
    /\ poolTx' = FALSE
    /\ poolShut' = [poolShut EXCEPT ![c] = "lock"]
    /\ UNCHANGED <<stopVars, medVars, keyVars, watchVars, procVars, actorVars, shutVars, poolQueue, poolHandles,
                   workersLock, rxLock, worker, rnd>>

\* let mut workers = self.workers.lock().unwrap();
PoolShutdownLock(c) ==
    /\ poolShut[c] = "lock"
    /\ workersLock = 0
    /\ workersLock' = c
    /\ poolShut' = [poolShut EXCEPT ![c] = "join"]
    /\ UNCHANGED <<stopVars, medVars, keyVars, watchVars, procVars, actorVars, shutVars, poolTx, poolQueue, poolHandles,
                   rxLock, worker, rnd>>

\* for handle in workers.drain(..) { handle.join() }: every handle still in
\* the vector is joined, then the guard is released
PoolShutdownJoin(c) ==
    /\ poolShut[c] = "join"
    /\ poolHandles => ReceiverDropped
    /\ poolHandles' = FALSE
    /\ workersLock' = 0
    /\ poolShut' = [poolShut EXCEPT ![c] = "returned"]
    /\ UNCHANGED <<stopVars, medVars, keyVars, watchVars, procVars, actorVars, shutVars, poolTx, poolQueue, rxLock,
                   worker, rnd>>

NextShutdown ==
    \/ \E s \in Submitters : SubmitCall(s)
    \/ \E s \in Submitters : SubmitSend(s)
    \/ ActorReceive
    \/ ActorExit
    \/ \E c \in Shutdowns : ShutdownCall(c)
    \/ \E c \in Shutdowns : ShutdownTake(c)
    \/ \E c \in Shutdowns : ShutdownLock(c)
    \/ \E c \in Shutdowns : ShutdownJoin(c)
    \/ \E r \in Renders : RenderCall(r)
    \/ \E r \in Renders : RenderSend(r)
    \/ \E r \in Renders : RenderReply(r)
    \/ \E w \in Workers : WorkerLock(w)
    \/ \E w \in Workers : WorkerRecv(w)
    \/ \E w \in Workers : WorkerBreak(w)
    \/ \E w \in Workers : WorkerRender(w)
    \/ \E c \in PoolShutdowns : PoolShutdownCall(c)
    \/ \E c \in PoolShutdowns : PoolShutdownTake(c)
    \/ \E c \in PoolShutdowns : PoolShutdownLock(c)
    \/ \E c \in PoolShutdowns : PoolShutdownJoin(c)

\* the processor is configured as in SpecActor and indexes from the root
InitShutdown ==
    /\ InitActor
    /\ config.index_zoom = 0

SpecShutdown == InitShutdown /\ [][NextShutdown]_vars

\* ------------------------------------------------------- the render pool
\* SpecPool: the render pool alone, for every worker_count up to MaxWorkers,
\* with MaxRenders calls of render, renders that may panic, and shutdown().

\* mutant: the panicking worker ends but the reply sender is not dropped
WorkerPanic_leak(w) ==
    /\ worker[w].pc = "render"
    /\ worker' = [worker EXCEPT ![w] = [pc |-> "panicked", task |-> 0]]
    /\ UNCHANGED <<stopVars, medVars, keyVars, watchVars, procVars, actorVars, shutVars, poolTx, poolQueue, poolHandles,
                   workersLock, rxLock, rnd, poolShut>>

\* render::render::render panics: the thread unwinds and ends, the task's
\* reply sender is dropped with it; the guard of the receiver was released
\* before the render began. When this was the last worker the receiver is
\* dropped too, and with it the tasks still queued.
WorkerPanic(w) ==
    /\ worker[w].pc = "render"
    /\ LET last == \A v \in DOMAIN worker \ {w} :
                       worker[v].pc \in {"exited", "panicked"}
           lost == IF last
                   THEN {worker[w].task}
                            \cup {poolQueue[i] : i \in 1 .. Len(poolQueue)}
                   ELSE {worker[w].task}
       IN  /\ rnd' = [r \in DOMAIN rnd |->
                         IF r \in lost THEN [rnd[r] EXCEPT !.resp = "dropped"]
                         ELSE rnd[r]]
           /\ poolQueue' = IF last THEN <<>> ELSE poolQueue
    /\ worker' = [worker EXCEPT ![w] = [pc |-> "panicked", task |-> 0]]
    /\ UNCHANGED <<stopVars, medVars, keyVars, watchVars, procVars, actorVars, shutVars, poolTx, poolHandles,
                   workersLock, rxLock, poolShut>>

NextPool ==
    \/ \E r \in DOMAIN rnd : RenderCall(r)
    \/ \E r \in DOMAIN rnd : RenderSend(r)
    \/ \E r \in DOMAIN rnd : RenderReply(r)
    \/ \E w \in DOMAIN worker : WorkerLock(w)
    \/ \E w \in DOMAIN worker : WorkerRecv(w)
    \/ \E w \in DOMAIN worker : WorkerBreak(w)
    \/ \E w \in DOMAIN worker : WorkerRender(w)
    \/ \E w \in DOMAIN worker : WorkerPanic(w)
    \/ \E c \in PoolShutdowns : PoolShutdownCall(c)
    \/ \E c \in PoolShutdowns : PoolShutdownTake(c)
    \/ \E c \in PoolShutdowns : PoolShutdownLock(c)
    \/ \E c \in PoolShutdowns : PoolShutdownJoin(c)

InitPool ==
    /\ InitProcessing
    /\ config.max_zoom = MaxZoom
    /\ config.invalidate_min_zoom = 0
    /\ config.index_zoom = 0
    /\ \E count \in 0 .. MaxWorkers :
           RenderWorkerPoolNew(count, 1 .. MaxRenders)

SpecPool == InitPool /\ [][NextPool]_vars

\* a step of worker thread w; a render ends, by a result or by a panic
WorkerStep(w) ==
    /\ w \in DOMAIN worker
    /\ \/ WorkerLock(w)
       \/ WorkerRecv(w)
       \/ WorkerBreak(w)
       \/ WorkerRender(w)
       \/ WorkerPanic(w)

\* every thread that can run does run: the workers, the sends of the calls
\* of render under way, and a shutdown() once invoked
FairPool ==
    /\ \A w \in 1 .. MaxWorkers : WF_vars(WorkerStep(w))
    /\ \A r \in 1 .. MaxRenders : WF_vars(RenderSend(r))
    /\ \A c \in PoolShutdowns :
           WF_vars(PoolShutdownTake(c) \/ PoolShutdownLock(c)
                       \/ PoolShutdownJoin(c))

SpecPoolFair == SpecPool /\ FairPool

\* ------------------------------------------------------ the two channels
\* SpecQueues: both bounded channels under load, without shutdown: calls of
\* render against the workers of the pool (up to the reply of the worker),
\* and save_tile / invalidate_blocking calls and the watcher against the
\* actor.
NextQueues ==
    \/ \E r \in DOMAIN rnd : RenderCall(r)
    \/ \E r \in DOMAIN rnd : RenderSend(r)
    \/ \E w \in DOMAIN worker : WorkerLock(w)
    \/ \E w \in DOMAIN worker : WorkerRecv(w)
    \/ \E w \in DOMAIN worker : WorkerRender(w)
    \/ \E s \in Submitters : SubmitCall(s)
    \/ \E s \in Submitters : SubmitSend(s)
    \/ WatcherInvalidate
    \/ ActorReceive

\* a pool of NumWorkers workers faces MaxRenders calls of render
InitQueues ==
    /\ InitProcessing
    /\ config.max_zoom = MaxZoom
    /\ config.invalidate_min_zoom = 0
    /\ config.index_zoom = 0
    /\ RenderWorkerPoolNew(NumWorkers, 1 .. MaxRenders)

SpecQueues == InitQueues /\ [][NextQueues]_vars

\* ------------------------------------------------- expiration watcher
\* SpecWatcher: an importer that writes each .tiles file in three system
\* calls (create, append the lines without the last line feed, append the
\* line feed), the startup walk, the installation of the file-system
\* watcher and the watcher thread. The channel of the tile-processing
\* worker (capacity 4096) takes every invalidation of these small files.

READ_RETRIES == 5

\* the line texts the importer writes: two coords, one of them padded with a
\* blank, a text with two pieces only, and the empty line
LineTexts ==
    { <<"1", "/", "0", "/", "0">>, <<" ", "0", "/", "0", "/", "0">>,
      <<"1", "/", "0">>, <<>> }

RECURSIVE JoinLines(_)
JoinLines(ls) ==
    IF Len(ls) = 1 THEN ls[1]
    ELSE ls[1] \o <<"\n">> \o JoinLines(Tail(ls))

\* what the importer appends first: one to MaxLines lines, the last of them
\* not empty and without its line feed
Writes ==
    { JoinLines(ls) : ls \in { l \in UNION { [1 .. n -> LineTexts] :
                                            n \in 1 .. MaxLines } :
                                  l[Len(l)] # <<>> } }

\* the notify watcher is installed: system calls on the files raise events
Installed == watcher.phase = "watching"

Notify(p) == IF Installed THEN Append(events, p) ELSE events

\* open(.., O_CREAT): the file exists and is empty
ImporterCreate(p) ==
    /\ imp[p].stage = "none"
    /\ fsys' = [fsys EXCEPT ![p] = [exists |-> TRUE, data |-> <<>>]]
    /\ imp' = [imp EXCEPT ![p].stage = "created"]
    /\ events' = Notify(p)
    /\ UNCHANGED <<stopVars, medVars, keyVars, procVars, actorVars, shutVars, poolVars, watcher, submitted>>

\* write(..) of the lines; a file unlinked meanwhile is written to no more
ImporterAppend(p) ==
    /\ imp[p].stage = "created"
    /\ \E text \in Writes :
           /\ imp' = [imp EXCEPT ![p] = [stage |-> "written", text |-> text]]
           /\ fsys' = IF fsys[p].exists
                      THEN [fsys EXCEPT ![p].data = @ \o text]
                      ELSE fsys
    /\ events' = IF fsys[p].exists THEN Notify(p) ELSE events
    /\ UNCHANGED <<stopVars, medVars, keyVars, procVars, actorVars, shutVars, poolVars, watcher, submitted>>

\* write(..) of the final line feed
ImporterNewline(p) ==
    /\ imp[p].stage = "written"
    /\ imp' = [imp EXCEPT ![p].stage = "done"]
    /\ fsys' = IF fsys[p].exists
               THEN [fsys EXCEPT ![p].data = @ \o <<"\n">>]
               ELSE fsys
    /\ events' = IF fsys[p].exists THEN Notify(p) ELSE events
    /\ UNCHANGED <<stopVars, medVars, keyVars, procVars, actorVars, shutVars, poolVars, watcher, submitted>>

\* somebody else removes the file while process_tile_expiration_file works
\* on what it has read of it; a Remove event is not acted on
\* (only Create and Modify are)
OperatorRemove(p) ==
    /\ fsys[p].exists
    /\ imp[p].stage = "done"
    /\ watcher.path = p
    /\ watcher.pc \in {"now", "lines", "unlink"}
    /\ fsys' = [fsys EXCEPT ![p] = NoFile]
    /\ UNCHANGED <<stopVars, medVars, keyVars, procVars, actorVars, shutVars, poolVars, imp, events,
                   watcher, submitted>>

\* the sequence of the elements of a set of paths, ascending
RECURSIVE Ascending(_)
Ascending(ps) ==
    IF ps = {} THEN <<>>
    ELSE LET p == CHOOSE q \in ps : \A r \in ps : q <= r
         IN  <<p>> \o Ascending(ps \ {p})

\* collect_expiration_files
StartupCollect ==
    /\ watcher.phase = "boot"
    /\ watcher' = [watcher EXCEPT
                       !.phase = "walk",
                       !.pending = Ascending({p \in Paths : fsys[p].exists})]
    /\ UNCHANGED <<stopVars, medVars, keyVars, procVars, actorVars, shutVars, poolVars, fsys, imp, events,
                   submitted>>

\* process_tile_expiration_file is entered for path p
Begin(w, p) ==
    [w EXCEPT !.pc = "stat", !.path = p, !.tries = 0]

\* the for loop of process_existing_expiration_files; after it start_watcher
\* spawns the watcher thread
StartupNext ==
    /\ watcher.phase = "walk"
    /\ watcher.pc = "idle"
    /\ watcher' = IF watcher.pending # <<>>
                  THEN [Begin(watcher, Head(watcher.pending))
                            EXCEPT !.pending = Tail(watcher.pending)]
                  ELSE [watcher EXCEPT !.phase = "spawned"]
    /\ UNCHANGED <<stopVars, medVars, keyVars, procVars, actorVars, shutVars, poolVars, fsys, imp, events,
                   submitted>>

\* notify::recommended_watcher and watcher.watch(watch_base, Recursive)
WatcherInstall ==
    /\ watcher.phase = "spawned"
    /\ watcher' = [watcher EXCEPT !.phase = "watching"]
    /\ UNCHANGED <<stopVars, medVars, keyVars, procVars, actorVars, shutVars, poolVars, fsys, imp, events,
                   submitted>>

\* rx.recv() of a Create or Modify event for a .tiles path
WatcherRecv ==
    /\ watcher.phase = "watching"
    /\ watcher.pc = "idle"
    /\ events # <<>>
    /\ events' = Tail(events)
    /\ watcher' = Begin(watcher, Head(events))
    /\ UNCHANGED <<stopVars, medVars, keyVars, procVars, actorVars, shutVars, poolVars, fsys, imp, submitted>>

\* process_tile_expiration_file has returned
Finish(w) == [IdleWatcher EXCEPT !.phase = w.phase, !.pending = w.pending]

\* an attempt of read_with_retry failed: sleep and try again, or give up
\* after READ_RETRIES attempts
Retry(w) ==
    IF w.tries + 1 >= READ_RETRIES THEN Finish(w)
    ELSE [w EXCEPT !.pc = "stat", !.tries = w.tries + 1]

\* fs::metadata(path) before the read
ReadStat ==
    /\ watcher.pc = "stat"
    /\ watcher' = IF fsys[watcher.path].exists
                  THEN [watcher EXCEPT
                            !.pc = "read",
                            !.size_before = Len(fsys[watcher.path].data)]
                  ELSE Retry(watcher)
    /\ UNCHANGED <<stopVars, medVars, keyVars, procVars, actorVars, shutVars, poolVars, fsys, imp, events,
                   submitted>>

\* fs::read_to_string(path)
ReadContent ==
    /\ watcher.pc = "read"
    /\ watcher' = IF fsys[watcher.path].exists
                  THEN [watcher EXCEPT !.pc = "check",
                                       !.value = fsys[watcher.path].data]
                  ELSE Retry(watcher)
    /\ UNCHANGED <<stopVars, medVars, keyVars, procVars, actorVars, shutVars, poolVars, fsys, imp, events,
                   submitted>>

\* the size is the same before and after the read, and the content is empty
\* or ends with a line feed
StableAndComplete(file, size_before, value) ==
    LET size_after == IF file.exists THEN Len(file.data) ELSE size_before
        stable == size_before = size_after
        complete == value = <<>> \/ value[Len(value)] = "\n"
    IN  stable /\ complete

\* fs::metadata(path) after the read and the decision of read_with_retry
ReadCheck ==
    /\ watcher.pc = "check"
    /\ watcher' = IF StableAndComplete(fsys[watcher.path], watcher.size_before,
                                       watcher.value)
                  THEN [watcher EXCEPT !.pc = "now", !.read_at = clock]
                  ELSE Retry(watcher)
    /\ UNCHANGED <<stopVars, medVars, keyVars, procVars, actorVars, shutVars, poolVars, fsys, imp, events,
                   submitted>>

\* let invalidated_at = SystemTime::now();
ProcessNow ==
    /\ watcher.pc = "now"
    /\ watcher' = [watcher EXCEPT
                       !.invalidated_at = clock,
                       !.lineNo = 1,
                       !.pc = IF lines(watcher.value) = <<>> THEN "unlink"
                              ELSE "lines"]
    /\ UNCHANGED <<stopVars, medVars, keyVars, procVars, actorVars, shutVars, poolVars, fsys, imp, events,
                   submitted>>

\* mutant: the clock is read for every line
InvalidatedAt_per_line(w, now) == now

\* the time the invalidation of a line carries
InvalidatedAt(w, now) == w.invalidated_at

\* one turn of `for line in content.lines()`: trim, skip the empty line,
\* parse, and invalidate_blocking(coord, invalidated_at) for a parsed coord
ProcessLine ==
    /\ watcher.pc = "lines"
    /\ LET all == lines(watcher.value)
           line == trim(all[watcher.lineNo])
           parsed == from_str(line)
           t == InvalidatedAt(watcher, clock)
       IN  /\ IF line # <<>> /\ parsed.ok
              THEN /\ queue' = Append(queue, Message("Invalidate", 0,
                                                     parsed.coord, 0, t, ""))
                   /\ submitted' =
                          Append(submitted,
                                 [path |-> watcher.path, coord |-> parsed.coord,
                                  invalidated_at |-> t,
                                  lineNo |-> watcher.lineNo])
              ELSE UNCHANGED <<queue, submitted>>
           /\ watcher' = IF watcher.lineNo = Len(all)
                         THEN [watcher EXCEPT !.pc = "unlink"]
                         ELSE [watcher EXCEPT !.lineNo = watcher.lineNo + 1]
    /\ UNCHANGED <<stopVars, medVars, keyVars, procVars, clock, last_prune, http, nInv, processed, shutVars,
                   poolVars, fsys, imp, events>>

\* fs::remove_file(path); NotFound is not reported
ProcessUnlink ==
    /\ watcher.pc = "unlink"
    /\ fsys' = [fsys EXCEPT ![watcher.path] = NoFile]
    /\ watcher' = Finish(watcher)
    /\ UNCHANGED <<stopVars, medVars, keyVars, procVars, actorVars, shutVars, poolVars, imp, events,
                   submitted>>

WatcherThread ==
    \/ StartupCollect
    \/ StartupNext
    \/ WatcherInstall
    \/ WatcherRecv
    \/ ReadStat
    \/ ReadContent
    \/ ReadCheck
    \/ ProcessNow
    \/ ProcessLine
    \/ ProcessUnlink

\* the clock advances; only the steps that follow a read of the clock tell
\* when
WatcherTick ==
    /\ watcher.pc \in {"check", "now", "lines"}
    /\ Tick

NextWatcher ==
    \/ \E p \in Paths : ImporterCreate(p)
    \/ \E p \in Paths : ImporterAppend(p)
    \/ \E p \in Paths : ImporterNewline(p)
    \/ \E p \in Paths : OperatorRemove(p)
    \/ WatcherThread
    \/ WatcherTick

InitWatcher ==
    /\ InitProcessing
    /\ config.max_zoom = MaxZoom
    /\ config.invalidate_min_zoom = 0
    /\ config.index_zoom = 0
    /\ RenderWorkerPoolNew(NumWorkers, Renders)

SpecWatcher == InitWatcher /\ [][NextWatcher]_vars

\* the startup and the watcher thread run whenever they can
SpecWatcherFair == SpecWatcher /\ WF_vars(WatcherThread)

\* ------------------------------------------------------------- quadkeys
\* TileCoord <-> Vec<u8>. The conversions depend on the width of u32 only
\* through the relation of the zoom to it, so the width is the bound
\* WordBits: the zoom WordBits is the code's zoom 32, and x and y range over
\* 0 .. 2^WordBits - 1.
Builds == {"debug", "release"}

KeyZooms == 0 .. WordBits + 1

Words == 0 .. Pow2(WordBits) - 1

KeyCoords == [zoom : KeyZooms, x : Words, y : Words]

\* the bytes of a key, and one that is none
KeyBytes == 0 .. 4

ByteSeqs == UNION { [1 .. n -> KeyBytes] : n \in 0 .. WordBits + 1 }

Returned(v) == [ok |-> TRUE, out |-> v]

Panicked(v) == [ok |-> FALSE, out |-> v]

\* 1u32 << z: with overflow checks (debug) a shift by the width or more
\* panics, without them (release) the shift amount is taken modulo the width
shl_one(build, z) ==
    IF z < WordBits THEN Returned(Pow2(z))
    ELSE IF build = "debug" THEN Panicked(0)
    ELSE Returned(Pow2(z % WordBits))

\* (t >> bit) & 1
bit_of(t, bit) == (t \div Pow2(bit)) % 2

\* mutant: the x bit above the y bit
key_byte_swapped(t, z, level) ==
    LET bit == z - 1 - level
    IN  bit_of(t.x, bit) * 2 + bit_of(t.y, bit)

\* the loop body of the encoding: (by << 1) | bx for level in 0 .. z - 1
key_byte(t, z, level) ==
    LET bit == z - 1 - level
    IN  bit_of(t.y, bit) * 2 + bit_of(t.x, bit)

\* impl From<TileCoord> for Vec<u8>
vec_from(build, t) ==
    LET z == t.zoom
        limit == shl_one(build, z)
    IN  IF ~(z <= WordBits) THEN Panicked(<<>>)
        ELSE IF z # 0 /\ ~limit.ok THEN Panicked(<<>>)
        ELSE IF ~(z = 0 \/ t.x < limit.out) THEN Panicked(<<>>)
        ELSE IF ~(z = 0 \/ t.y < limit.out) THEN Panicked(<<>>)
        ELSE Returned([i \in 1 .. z |-> key_byte(t, z, i - 1)])

\* the loop of the decoding over the bytes from the n-th on
RECURSIVE decode_loop(_, _, _, _)
decode_loop(value, n, x, y) ==
    IF n > Len(value) THEN Returned([x |-> x, y |-> y])
    ELSE LET d == value[n]
         IN  IF ~(d <= 3) THEN Panicked([x |-> x, y |-> y])
             ELSE decode_loop(value, n + 1,
                              ((x * 2) % Pow2(WordBits)) + (d % 2),
                              ((y * 2) % Pow2(WordBits)) + ((d \div 2) % 2))

\* impl From<&[u8]> for TileCoord
tile_coord_from(value) ==
    LET z == Len(value)
        xy == decode_loop(value, 1, 0, 0)
    IN  IF ~(z <= WordBits) THEN Panicked(NoCoord)
        ELSE IF ~xy.ok THEN Panicked(NoCoord)
        ELSE Returned(TileCoord(z, xy.out.x, xy.out.y))

\* let k: Vec<u8> = a.into();
EncodeA ==
    /\ codec.mode = "pair"
    /\ codec.pc = "start"
    /\ codec' = [codec EXCEPT !.pc = "encoded",
                              !.ka = vec_from(codec.build, codec.a)]
    /\ UNCHANGED <<stopVars, medVars, procVars, actorVars, shutVars, poolVars, watchVars>>

\* TileCoord::from(k.as_slice()); nothing is decoded when the encoding
\* panicked
DecodeKey ==
    /\ codec.pc = "encoded"
    /\ codec' = [codec EXCEPT
                     !.pc = "decoded",
                     !.back = IF codec.ka.ok THEN tile_coord_from(codec.ka.out)
                              ELSE Panicked(NoCoord)]
    /\ UNCHANGED <<stopVars, medVars, procVars, actorVars, shutVars, poolVars, watchVars>>

\* let k: Vec<u8> = b.into();
EncodeB ==
    /\ codec.pc = "decoded"
    /\ codec' = [codec EXCEPT !.pc = "walk",
                              !.kb = vec_from(codec.build, codec.b),
                              !.walk = codec.b,
                              !.reached = codec.b = codec.a]
    /\ UNCHANGED <<stopVars, medVars, procVars, actorVars, shutVars, poolVars, watchVars>>

\* one parent() of the walk from b; None ends it
ParentStep ==
    /\ codec.pc = "walk"
    /\ LET p == parent(codec.walk)
       IN  codec' = IF p = NoCoord THEN [codec EXCEPT !.pc = "done"]
                    ELSE [codec EXCEPT !.walk = p,
                                       !.reached = codec.reached \/ p = codec.a]
    /\ UNCHANGED <<stopVars, medVars, procVars, actorVars, shutVars, poolVars, watchVars>>

\* TileCoord::from(value) of a byte sequence
DecodeValue ==
    /\ codec.mode = "bytes"
    /\ codec.pc = "start"
    /\ codec' = [codec EXCEPT !.pc = "done",
                              !.back = tile_coord_from(codec.value)]
    /\ UNCHANGED <<stopVars, medVars, procVars, actorVars, shutVars, poolVars, watchVars>>

NextQuadkey ==
    \/ EncodeA
    \/ DecodeKey
    \/ EncodeB
    \/ ParentStep
    \/ DecodeValue

\* the coords the encoding's assertions are written for
ValidCoord(c) ==
    /\ c.zoom <= WordBits
    /\ c.zoom = 0 \/ (c.x < Pow2(c.zoom) /\ c.y < Pow2(c.zoom))

InitQuadkey ==
    /\ InitServer
    /\ serve = IdleServe
    /\ stop = IdleStop
    /\ config.max_zoom = MaxZoom
    /\ config.invalidate_min_zoom = 0
    /\ config.index_zoom = 0
    /\ RenderWorkerPoolNew(NumWorkers, Renders)
    /\ \E build \in Builds :
           \/ \E a \in KeyCoords, b \in {c \in KeyCoords : ValidCoord(c)} :
                  codec = [IdleCodec EXCEPT !.mode = "pair", !.build = build,
                                            !.pc = "start", !.a = a, !.b = b]
           \/ \E value \in ByteSeqs :
                  codec = [IdleCodec EXCEPT !.mode = "bytes", !.build = build,
                                            !.pc = "start", !.value = value]

SpecQuadkey == InitQuadkey /\ [][NextQuadkey]_vars

\* ------------------- SpecRange: invalidations of coords out of range
\* FromStr checks no range, so the watcher submits what the lines of an
\* expiration file say. u32 has WordBits bits here, as for the quadkeys.
RangeTexts ==
    { <<"0", "/", "0", "/", "0">>, <<"0", "/", "1", "/", "0">>,
      <<"0", "/", "3", "/", "0">>, <<"0", "/", "7", "/", "0">>,
      <<"1", "/", "1", "/", "1">> }

\* a * b in u32: with overflow checks the overflow panics, without them the
\* product wraps
mul_u32(build, a, b) ==
    IF a * b < Pow2(WordBits) THEN Returned(a * b)
    ELSE IF build = "debug" THEN Panicked(0)
    ELSE Returned((a * b) % Pow2(WordBits))

\* a + b in u32, likewise
add_u32(build, a, b) ==
    IF a + b < Pow2(WordBits) THEN Returned(a + b)
    ELSE IF build = "debug" THEN Panicked(0)
    ELSE Returned((a + b) % Pow2(WordBits))

\* the else branch of delete_indexed_tiles up to its loops: factor, x_start,
\* y_start, x_start + factor and, once the outer loop is entered,
\* y_start + factor; TRUE when one of them panics
index_range_panics(build, cfg, invalidate_coord) ==
    LET factor == Pow2(cfg.index_zoom - invalidate_coord.zoom)
        x_start == mul_u32(build, invalidate_coord.x, factor)
        y_start == mul_u32(build, invalidate_coord.y, factor)
        x_end == add_u32(build, x_start.out, factor)
        y_end == add_u32(build, y_start.out, factor)
    IN  IF ~x_start.ok \/ ~y_start.ok THEN TRUE
        ELSE IF ~x_end.ok THEN TRUE
        ELSE IF x_start.out < x_end.out THEN ~y_end.ok
        ELSE FALSE

\* handle_invalidation(coord, _) panics: the purge runs and takes the branch
\* of delete_indexed_tiles that computes the range of index tiles
invalidation_panics(build, cfg, coord) ==
    /\ coord.zoom <= cfg.max_zoom
    /\ ancestor_at_zoom(coord, cfg.index_zoom) = NoCoord
    /\ index_range_panics(build, cfg, coord)

\* the watcher submits the Invalidate of a line of an expiration file
RangeInvalidate ==
    \E text \in RangeTexts :
        /\ nInv < MaxInvalidations
        /\ Len(queue) < QueueCap
        /\ thread = "running"
        /\ from_str(text).ok
        /\ queue' = Append(queue, Message("Invalidate", 0, from_str(text).coord,
                                          0, clock, ""))
        /\ nInv' = nInv + 1
        /\ UNCHANGED <<procVars, clock, last_prune, http, processed, shutVars,
                       poolVars, watchVars, keyVars, medVars,
                       stopVars>>

\* one turn of the actor loop for any coord: the turn of ActorReceive, or
\* the panic of handle_invalidation, which unwinds the thread after the
\* prune and record_invalidation have been done. (Where nothing panics and
\* a product has wrapped, the index tiles of the wrapped range hold no line
\* the coord covers, as those of the unwrapped range.)
ActorTurn ==
    /\ thread = "running"
    /\ queue # <<>>
    /\ LET message == Head(queue)
           due == duration_since(clock, last_prune)
                      >= INVALIDATION_REGISTER_PRUNE_INTERVAL
           pruned == IF due
                     THEN prune_invalidation_register(
                              register, clock, INVALIDATION_REGISTER_TTL)
                     ELSE register
       IN  IF /\ message.kind = "Invalidate"
              /\ invalidation_panics(codec.build, config, message.coord)
           THEN /\ thread' = "panicked"
                /\ queue' = Tail(queue)
                /\ last_prune' = IF due THEN clock ELSE last_prune
                /\ register' = record_invalidation(pruned, message.coord,
                                                   message.t)
                /\ UNCHANGED <<config, files, index, call, nOps, clock, http,
                               nInv, processed, tx, handle, handleLock,
                               handled, sub, shut, poolVars, watchVars,
                               keyVars, medVars,
                       stopVars>>
           ELSE ActorReceive

NextRange ==
    \/ RangeInvalidate
    \/ \E h \in Handlers : HttpMiss(h)
    \/ \E h \in Handlers : HttpRender(h)
    \/ \E h \in Handlers : HttpSave(h)
    \/ ActorTurn
    \/ Tick

InitRange ==
    /\ InitServer
    /\ serve = IdleServe
    /\ stop = IdleStop
    /\ config.max_zoom = MaxZoom
    /\ config.invalidate_min_zoom = 0
    /\ config.index_zoom = MaxZoom - 1
    /\ RenderWorkerPoolNew(NumWorkers, Renders)
    /\ \E build \in Builds : codec = [IdleCodec EXCEPT !.build = build]

SpecRange == InitRange /\ [][NextRange]_vars

\* ----------------------- SpecStop: start() stops the watcher and the actor
\* shutdown_tile_workers is called twice: by the task that waits for the
\* signal and by the main thread once the server has stopped (call
\* MainThread), which then shuts the render pool down. The watcher thread
\* receives file-system events and Stop on one channel; for an event it
\* processes a file of one line, calling invalidate_blocking.

\* the call of shutdown_tile_workers made by the main thread
MainThread == NumShutdowns

\* the submitter that is the watcher thread, calling invalidate_blocking
WatcherSubmitter == NumSubmitters

StopRest ==
    <<procVars, actorVars, shutVars, poolVars, watchVars, keyVars, medVars>>

\* shutdown_tile_workers is entered
StopInvoke(i) ==
    /\ stop.inv[i].pc = "idle"
    /\ stop' = [stop EXCEPT !.inv[i].pc = "take_watcher"]
    /\ UNCHANGED StopRest

\* let watcher = tile_invalidation_watcher.lock().unwrap().take();
StopTakeWatcher(i) ==
    /\ stop.inv[i].pc = "take_watcher"
    /\ stop' = [stop EXCEPT !.inv[i].pc = "take_worker",
                            !.inv[i].watcher = stop.tile_invalidation_watcher,
                            !.tile_invalidation_watcher = FALSE]
    /\ UNCHANGED StopRest

\* let worker = tile_processing_worker.lock().unwrap().take();
StopTakeWorker(i) ==
    /\ stop.inv[i].pc = "take_worker"
    /\ stop' = [stop EXCEPT !.inv[i].pc = "watcher",
                            !.inv[i].worker = stop.tile_processing_worker,
                            !.tile_processing_worker = FALSE]
    /\ UNCHANGED StopRest

\* if let Some(watcher) = watcher { watcher.shutdown() }: Stop is sent, then
\* the thread is joined; a send to a thread that has ended fails unnoticed
StopWatcherSend(i) ==
    /\ stop.inv[i].pc = "watcher"
    /\ stop' = IF stop.inv[i].watcher
               THEN [stop EXCEPT !.inv[i].pc = "join",
                                 !.rx = IF stop.run_watcher = "exited" THEN @
                                        ELSE Append(@, "Stop")]
               ELSE [stop EXCEPT !.inv[i].pc = "worker"]
    /\ UNCHANGED StopRest

\* handle.join() of TileInvalidationWatcher::shutdown returns
StopWatcherJoin(i) ==
    /\ stop.inv[i].pc = "join"
    /\ stop.run_watcher = "exited"
    /\ stop' = [stop EXCEPT !.inv[i].pc = "worker"]
    /\ UNCHANGED StopRest

\* if let Some(worker) = worker { worker.shutdown() } is invoked; its steps
\* are ShutdownTake, ShutdownLock and ShutdownJoin
StopWorkerShutdown(i) ==
    /\ stop.inv[i].pc = "worker"
    /\ stop.inv[i].worker
    /\ ShutdownCall(i)

\* shutdown_tile_workers returns
StopReturn(i) ==
    /\ stop.inv[i].pc = "worker"
    /\ stop.inv[i].worker => shut[i] = "returned"
    /\ stop' = [stop EXCEPT !.inv[i].pc = "returned"]
    /\ UNCHANGED StopRest

\* render_worker_pool.shutdown() of start(), after its own call of
\* shutdown_tile_workers has returned
StartPoolShutdown ==
    /\ stop.inv[MainThread].pc = "returned"
    /\ \E c \in PoolShutdowns : PoolShutdownCall(c)

\* the notify watcher reports a file-system event
StopNotify ==
    /\ stop.run_watcher # "exited"
    /\ stop.events < MaxEvents
    /\ stop' = [stop EXCEPT !.rx = Append(@, "Event"),
                            !.events = @ + 1]
    /\ UNCHANGED StopRest

\* while let Ok(res) = rx.recv(): Stop breaks the loop, an event has its
\* file processed
StopWatcherRecv ==
    /\ stop.run_watcher = "recv"
    /\ stop.rx # <<>>
    /\ stop' = [stop EXCEPT !.rx = Tail(@),
                            !.run_watcher = IF Head(stop.rx) = "Stop"
                                            THEN "exited" ELSE "process"]
    /\ UNCHANGED StopRest

\* worker.invalidate_blocking(coord, invalidated_at) of the line of the file
StopWatcherInvalidate ==
    /\ stop.run_watcher = "process"
    /\ SubmitCall(WatcherSubmitter)

StopWatcherEnqueue ==
    /\ stop.run_watcher = "process"
    /\ SubmitSend(WatcherSubmitter)

\* invalidate_blocking has returned, its Err is logged; the file is
\* unlinked and the loop goes on
StopWatcherDone ==
    /\ stop.run_watcher = "process"
    /\ sub[WatcherSubmitter].pc = "done"
    /\ stop' = [stop EXCEPT !.run_watcher = "recv",
                            !.enqueue = sub[WatcherSubmitter].result]
    /\ sub' = [sub EXCEPT ![WatcherSubmitter] = IdleCall]
    /\ UNCHANGED <<procVars, actorVars, tx, handle, handleLock, thread,
                   handled, shut, poolVars, watchVars, keyVars, medVars>>

NextStop ==
    \/ \E i \in Shutdowns : StopInvoke(i)
    \/ \E i \in Shutdowns : StopTakeWatcher(i)
    \/ \E i \in Shutdowns : StopTakeWorker(i)
    \/ \E i \in Shutdowns : StopWatcherSend(i)
    \/ \E i \in Shutdowns : StopWatcherJoin(i)
    \/ \E i \in Shutdowns : StopWorkerShutdown(i)
    \/ \E i \in Shutdowns : ShutdownTake(i)
    \/ \E i \in Shutdowns : ShutdownLock(i)
    \/ \E i \in Shutdowns : ShutdownJoin(i)
    \/ \E i \in Shutdowns : StopReturn(i)
    \/ StartPoolShutdown
    \/ \E c \in PoolShutdowns : PoolShutdownTake(c)
    \/ \E c \in PoolShutdowns : PoolShutdownLock(c)
    \/ \E c \in PoolShutdowns : PoolShutdownJoin(c)
    \/ \E w \in Workers : WorkerLock(w)
    \/ \E w \in Workers : WorkerBreak(w)
    \/ StopNotify
    \/ StopWatcherRecv
    \/ StopWatcherInvalidate
    \/ StopWatcherEnqueue
    \/ StopWatcherDone
    \/ ActorReceive
    \/ ActorExit

\* start() with a tile cache and an expires path: both Options are Some and
\* the watcher thread is in its loop
InitStop ==
    /\ InitServer
    /\ codec = IdleCodec
    /\ serve = IdleServe
    /\ config.max_zoom = MaxZoom
    /\ config.invalidate_min_zoom = 0
    /\ config.index_zoom = 0
    /\ RenderWorkerPoolNew(NumWorkers, Renders)
    /\ stop = [IdleStop EXCEPT !.tile_invalidation_watcher = TRUE,
                               !.tile_processing_worker = TRUE,
                               !.run_watcher = "recv"]

SpecStop == InitStop /\ [][NextStop]_vars

\* ------------------------------------- SpecMediator: serve_tile, in steps
\* One request at a time is followed through serve_tile; the actor writes
\* the saved tiles meanwhile, shutdown() of the tile worker may close the
\* queue, and the clock advances between any two steps.
Exts == {"none", "jpg", "jpeg", "png"}

\* the scales a request may name: an allowed one and one that is not
RequestScales == {1, 3}

\* the tiles a request may name: one of every zoom
RequestCoords == { TileCoord(z, 0, 0) : z \in Zooms }

Reply(s, status, body) == [s EXCEPT !.pc = "done", !.status = status,
                                    !.body = body]

\* serve_tile from its entry up to the coverage test: the request is
\* rejected, answered with the gray tile, or goes on to the cache
ServeTileCheck ==
    /\ serve.pc \in {"idle", "done"}
    /\ serve.n < MaxRequests
    /\ \E coord \in RequestCoords, scale \in RequestScales, ext \in Exts,
          relation \in {"Outside", "Inside"} :
           LET s == [IdleServe EXCEPT !.state = serve.state,
                                      !.n = serve.n + 1,
                                      !.coord = coord, !.scale = scale,
                                      !.ext = ext]
           IN  serve' =
                   IF coord.zoom > config.max_zoom THEN Reply(s, 404, "")
                   ELSE IF scale \notin Scales THEN Reply(s, 404, "")
                   ELSE IF ext \notin {"none", "jpg", "jpeg"}
                   THEN Reply(s, 400, "")
                   ELSE IF serve.state.coverage_geometry
                           /\ relation = "Outside"
                   THEN Reply([s EXCEPT !.relation = relation], 200,
                              "GRAY_TILE_JPEG")
                   ELSE [s EXCEPT !.pc = "cache",
                                  !.ext = IF ext = "none" THEN "jpeg" ELSE ext,
                                  !.relation =
                                      IF serve.state.coverage_geometry
                                      THEN relation ELSE "none"]
    /\ UNCHANGED <<procVars, actorVars, shutVars, poolVars, watchVars, keyVars,
                   stopVars>>

\* fs::read(&file_path) when there is a cache root and serve_cached is on:
\* a hit is the reply, anything else goes on to the render
ServeTileCacheRead ==
    /\ serve.pc = "cache"
    /\ LET file_path == tile_cache_path(serve.coord, serve.scale)
       IN  serve' =
               IF serve.state.tile_cache_base_path /\ serve.state.serve_cached
               THEN IF file_path \in DOMAIN files
                    THEN Reply([serve EXCEPT !.cache = "hit",
                                             !.cache_read_at = clock],
                               200, files[file_path])
                    ELSE [serve EXCEPT !.pc = "now", !.cache = "miss",
                                       !.cache_read_at = clock]
               ELSE [serve EXCEPT !.pc = "now"]
    /\ UNCHANGED <<procVars, actorVars, shutVars, poolVars, watchVars, keyVars,
                   stopVars>>

\* let render_started_at = SystemTime::now();
ServeTileNow ==
    /\ serve.pc = "now"
    /\ serve' = [serve EXCEPT !.pc = "submit", !.render_started_at = clock]
    /\ UNCHANGED <<procVars, actorVars, shutVars, poolVars, watchVars, keyVars,
                   stopVars>>

\* state.render_worker_pool.render(render_request): the task is submitted
ServeTileSubmit ==
    /\ serve.pc = "submit"
    /\ serve' = [serve EXCEPT !.pc = "queued", !.submitted_at = clock,
                              !.renders = @ + 1]
    /\ UNCHANGED <<procVars, actorVars, shutVars, poolVars, watchVars, keyVars,
                   stopVars>>

\* a worker of the pool takes the task and the renderer starts to read
ServeTileRenderStart ==
    /\ serve.pc = "queued"
    /\ serve' = [serve EXCEPT !.pc = "rendering", !.render_read_at = clock]
    /\ UNCHANGED <<procVars, actorVars, shutVars, poolVars, watchVars, keyVars,
                   stopVars>>

\* .await of the render: Ok(rendered), or Err (the pool is closed, the
\* render failed or its worker panicked), which is the reply 500
ServeTileRenderResult ==
    /\ serve.pc \in {"queued", "rendering"}
    /\ \E ok \in BOOLEAN :
           /\ ok => serve.pc = "rendering"
           /\ serve' = IF ok
                       THEN [serve EXCEPT !.pc = "save", !.rendered = "jpegA"]
                       ELSE Reply([serve EXCEPT !.rendered = "Err"], 500,
                                  "render error")
    /\ UNCHANGED <<procVars, actorVars, shutVars, poolVars, watchVars, keyVars,
                   stopVars>>

\* mutant: the clock is read when the save is enqueued
SaveStartedAt_now(s, now) == now

\* the render_started_at the SaveTile message carries
SaveStartedAt(s, now) == s.render_started_at

\* mutant: the save is enqueued whether or not there is a cache root
WantsSave_any(s) == s.state.tile_worker

\* file_path.is_some() && let Some(tile_worker) = state.tile_worker.as_ref()
WantsSave(s) == s.state.tile_cache_base_path /\ s.state.tile_worker

\* the save_tile(..).await, whose error is only logged, and the reply 200
\* with the rendered bytes
ServeTileSave ==
    /\ serve.pc = "save"
    /\ IF WantsSave(serve)
       THEN IF tx /\ thread # "exited"
            THEN /\ Len(queue) < QueueCap
                 /\ queue' = Append(queue,
                                    Message("SaveTile", 0, serve.coord,
                                            serve.scale,
                                            SaveStartedAt(serve, clock),
                                            serve.rendered))
                 /\ serve' = Reply([serve EXCEPT !.save = "Ok"], 200,
                                   serve.rendered)
            ELSE /\ serve' = Reply([serve EXCEPT !.save = "QueueClosed"], 200,
                                   serve.rendered)
                 /\ UNCHANGED queue
       ELSE /\ serve' = Reply(serve, 200, serve.rendered)
            /\ UNCHANGED queue
    /\ UNCHANGED <<procVars, clock, last_prune, http, nInv, processed, shutVars,
                   poolVars, watchVars, keyVars, stopVars>>

\* the clock advances; only the steps around a read of the clock tell when
MediatorTick ==
    /\ serve.pc \in {"now", "queued", "rendering", "save"}
    /\ Tick

\* no other invocation of shutdown() is under way: one closes the queue
Alone(c) == \A d \in Shutdowns \ {c} : shut[d] = "idle"

NextMediator ==
    \/ ServeTileCheck
    \/ ServeTileCacheRead
    \/ ServeTileNow
    \/ ServeTileSubmit
    \/ ServeTileRenderStart
    \/ ServeTileRenderResult
    \/ ServeTileSave
    \/ ActorReceive
    \/ MediatorTick
    \/ \E c \in Shutdowns : Alone(c) /\ ShutdownCall(c)
    \/ \E c \in Shutdowns : Alone(c) /\ ShutdownTake(c)

InitMediator ==
    /\ InitServer
    /\ codec = IdleCodec
    /\ stop = IdleStop
    /\ config.max_zoom = MaxZoom - 1
    /\ config.invalidate_min_zoom = 0
    /\ config.index_zoom = 0
    /\ RenderWorkerPoolNew(NumWorkers, Renders)
    /\ \E state \in [tile_cache_base_path : BOOLEAN, serve_cached : BOOLEAN,
                     tile_worker : BOOLEAN, coverage_geometry : BOOLEAN] :
           serve = [IdleServe EXCEPT !.state = state]

SpecMediator == InitMediator /\ [][NextMediator]_vars

\* ---------------------------------------------- vocabulary of the claims
HasCacheFile(fls, c) ==
    \E s \in Scales : tile_cache_path(c, s) \in DOMAIN fls

\* the tile whose cache file p is
TileOfPath(p) ==
    CHOOSE c \in Coords : \E s \in Scales : tile_cache_path(c, s) = p

\* the lines of all index files
IndexLines(idx) ==
    UNION { { idx[c][i] : i \in 1 .. Len(idx[c]) } : c \in DOMAIN idx }

\* the tile a line of an index file was written for
LineCoord(e) == TileCoord(e.zoom, e.x, e.y)

HasIndexLine(idx, c, s) ==
    \E e \in IndexLines(idx) : LineCoord(e) = c /\ e.scale = s

\* ------------------------------------------------------------------ C1
\* C1: once handle_invalidation(A, t1) has been applied (its timestamp is
\* in the register), handle_save_tile(bytes, B, s, t0) with A == B or A an
\* ancestor of B and t0 < t1 writes no cache file and appends no index entry.
C1_NoStalePersistence ==
    [][(/\ call'.op = "save"
        /\ \E A \in DOMAIN register :
              /\ is_ancestor_of(A, call'.coord)
              /\ call'.t < register[A])
       => (files' = files /\ index' = index)]_vars

\* ------------------------------------------------------------------ C2
\* C2: in every interleaving of requests, watcher and actor, a SaveTile(B, t0)
\* the actor handles after it has handled Invalidate(A, t1), with A == B or
\* A an ancestor of B and t0 < t1, never has a cache file written, however
\* long the render or the queued save was delayed.
C2_RaceSafeInvalidation ==
    [][(/\ call'.op = "save"
        /\ \E A \in DOMAIN processed :
              /\ is_ancestor_of(A, call'.coord)
              /\ call'.t < processed[A])
       => files' = files]_vars

\* ------------------------------------------------------------------ C3
\* C3: after Invalidate(A, _) with A.zoom <= max_zoom has been processed, no
\* cache file written by an earlier save remains for A or for a descendant
\* of A, whatever the zoom of that tile relative to index_zoom.
C3_EveryArtifactPurged ==
    (call.op = "invalidate" /\ call.coord.zoom <= config.max_zoom)
    => \A B \in Coords :
           is_ancestor_of(call.coord, B) => ~HasCacheFile(files, B)

\* ------------------------------------------------------------------ C4
\* C4: after handle_invalidation(A, _) no line of an index file is left for
\* A or for a descendant of A, and the cache file of every line the call
\* removed has been deleted.
C4_DescendantPurge ==
    [][call'.op = "invalidate"
       => /\ \A e \in IndexLines(index') :
                ~is_ancestor_of(call'.coord, LineCoord(e))
          /\ \A e \in IndexLines(index) :
                ~HasIndexLine(index', LineCoord(e), e.scale)
                => tile_cache_path(LineCoord(e), e.scale) \notin DOMAIN files']_vars

\* ------------------------------------------------------------------ C5
\* C5: after handle_invalidation(A, _), with A.zoom <= max_zoom so that the
\* purge runs, every proper ancestor P of A with P.zoom >= invalidate_min_zoom
\* has no cache file of any scale and no index line left, for every
\* index_zoom and invalidate_min_zoom.
C5_AncestorPurge ==
    (call.op = "invalidate" /\ call.coord.zoom <= config.max_zoom)
    => \A P \in Coords :
           (/\ P # call.coord
            /\ is_ancestor_of(P, call.coord)
            /\ P.zoom >= config.invalidate_min_zoom)
           => /\ ~HasCacheFile(files, P)
              /\ \A s \in Scales : ~HasIndexLine(index, P, s)

\* ------------------------------------------------------------------ C6
\* C6: handle_save_tile(bytes, B, s, t0) writes bytes to the cache file of
\* (B, s) and records an index line for it (where the tile is above
\* index_zoom, the zooms the index covers) whenever t0 is strictly later than
\* the registered timestamp of B and of every registered ancestor of B.
C6_FreshSavePersisted ==
    [][(/\ call'.op = "save"
        /\ \A A \in DOMAIN register :
              is_ancestor_of(A, call'.coord) => call'.t > register[A])
       => /\ tile_cache_path(call'.coord, call'.scale) \in DOMAIN files'
          /\ files'[tile_cache_path(call'.coord, call'.scale)] = call'.data
          /\ call'.coord.zoom > config.index_zoom
             => HasIndexLine(index', call'.coord, call'.scale)]_vars

\* ------------------------------------------------------------------ C7
\* C7: applying handle_invalidation(A, t) a second time right after it has
\* been applied leaves the cache files and the index files as the first
\* application left them.
C7_IdempotentInvalidation ==
    [][call'.op = "invalidate"
       => LET again == handle_invalidation(processor', config, call'.coord,
                                           call'.t)
          IN  again.files = files' /\ again.index = index']_vars

C7_Witness ==
    /\ call.op = "invalidate"
    /\ call.out = "purged"
    /\ \E e \in IndexLines(index) : e.nul

\* ------------------------------------------------------------------ C8
\* C8: handle_invalidation(A, _) leaves unchanged the cache file of every
\* tile that is neither A, nor a descendant of A, nor an ancestor of A with
\* zoom >= invalidate_min_zoom.
Affected(A, c) ==
    \/ is_ancestor_of(A, c)
    \/ is_ancestor_of(c, A) /\ c.zoom >= config.invalidate_min_zoom

C8_InvalidationFrame ==
    [][call'.op = "invalidate"
       => \A p \in DOMAIN files :
              ~Affected(call'.coord, TileOfPath(p))
              => p \in DOMAIN files' /\ files'[p] = files[p]]_vars

\* a purge that removed a file and left the file of a sibling in the same
\* directory, or of an ancestor below invalidate_min_zoom, in place
C8_Witness ==
    /\ call.op = "invalidate"
    /\ call.out = "purged"
    /\ \E p \in DOMAIN files :
          LET c == TileOfPath(p) IN
          \/ /\ c.zoom = call.coord.zoom - 1
             /\ c.x = parent(call.coord).x
             /\ c # parent(call.coord)
          \/ /\ is_ancestor_of(c, call.coord)
             /\ c.zoom < config.invalidate_min_zoom

\* C9: no accepted message is lost at shutdown of the tile-processing worker.
\* When the worker thread has exited, every message whose save_tile or
\* invalidate_blocking call returned Ok has been handled by the processor
\* (the processor handles messages only while the thread runs), and every
\* shutdown() call that has returned finds the thread exited.
C9_NoAcceptedMessageLost ==
    /\ thread = "exited" =>
           \A s \in Submitters : sub[s].result = "Ok" => s \in handled
    /\ \A c \in Shutdowns : shut[c] = "returned" => thread = "exited"

\* both kinds of message were accepted, one of them by a call made while a
\* shutdown() was under way, and every shutdown() call has returned
C9_Witness ==
    /\ thread = "exited"
    /\ \A c \in Shutdowns : shut[c] = "returned"
    /\ \A s \in Submitters : sub[s].result = "Ok"
    /\ \E s \in Submitters : sub[s].after = "invoked"

\* C10 as stated: once shutdown() has been invoked, every save_tile and
\* invalidate_blocking call returns QueueClosed and its message is never
\* handled, and render returns QueueClosed once the pool's shutdown() has
\* been invoked. Read for the calls that start after the invocation.
C10_RejectedOnceInvoked ==
    /\ \A s \in Submitters :
           sub[s].after # "none" =>
               /\ sub[s].result \in {"none", "QueueClosed"}
               /\ s \notin handled
    /\ \A r \in Renders :
           rnd[r].after # "none" => rnd[r].result \in {"none", "QueueClosed"}

\* C10 amended: once a shutdown() call has taken the sender out of tx (its
\* first statement), every save_tile, invalidate_blocking and render call
\* that reads tx from then on returns QueueClosed at once, and its message
\* is neither enqueued nor handled.
C10_RejectedOnceSenderTaken ==
    /\ \A s \in Submitters :
           sub[s].after = "taken" =>
               /\ sub[s].pc = "done"
               /\ sub[s].result = "QueueClosed"
               /\ s \notin handled
               /\ \A i \in 1 .. Len(queue) : queue[i].from # s
    /\ \A r \in Renders :
           rnd[r].after = "taken" =>
               /\ rnd[r].pc = "done"
               /\ rnd[r].result = "QueueClosed"
               /\ rnd[r].resp = "none"
               /\ \A i \in 1 .. Len(poolQueue) : poolQueue[i] # r
               /\ \A w \in Workers : worker[w].task # r

\* a call of each component was rejected after the sender was taken, and a
\* call made between the invocation of shutdown() and the take was accepted
C10_Witness ==
    /\ \E s \in Submitters : sub[s].after = "taken"
    /\ \E r \in Renders : rnd[r].after = "taken"
    /\ \E s \in Submitters : sub[s].after = "invoked" /\ sub[s].result = "Ok"

\* a call of render whose task was accepted into the channel of the pool
Accepted(r) ==
    \/ rnd[r].pc = "wait"
    \/ rnd[r].pc = "done" /\ rnd[r].result # "QueueClosed"

Executing == {r \in DOMAIN rnd :
                 \E w \in DOMAIN worker :
                     worker[w].pc = "render" /\ worker[w].task = r}

\* positions of the task of r in the channel of the pool
QueuedAt(r) == {i \in 1 .. Len(poolQueue) : poolQueue[i] = r}

\* C12: bounded render concurrency. With worker_count = N at most N calls of
\* render are being executed, no task is executed by two workers, and an
\* accepted task that is not yet answered is either being executed or waits
\* in the channel (once), never both.
C12_BoundedRenderConcurrency ==
    /\ Cardinality(Executing) <= worker_count
    /\ \A v, w \in DOMAIN worker :
           (/\ worker[v].pc = "render"
            /\ worker[w].pc = "render"
            /\ worker[v].task = worker[w].task) => v = w
    /\ \A r \in DOMAIN rnd :
           /\ Cardinality(QueuedAt(r)) <= 1
           /\ r \in Executing => QueuedAt(r) = {}
           /\ (Accepted(r) /\ rnd[r].resp = "none")
                  => (r \in Executing \/ QueuedAt(r) # {})

\* every worker of a pool of MaxWorkers is executing a task while a further
\* task waits in the channel
C12_Witness ==
    /\ worker_count = MaxWorkers
    /\ Cardinality(Executing) = MaxWorkers
    /\ \E r \in DOMAIN rnd : r \notin Executing /\ QueuedAt(r) # {}

\* C13: queue bounds. The channel of the render pool never holds more than
\* 2 * max(N, 1) tasks and the channel of the tile-processing worker never
\* more than its capacity; a submitter that finds its channel full stays
\* where it is (no result, no rejection) while the channel is full, and a
\* message that was accepted is in the channel or has been received.
C13_QueueBounds ==
    /\ [](/\ Len(poolQueue) <= queue_size
          /\ Len(queue) <= QueueCap
          /\ \A s \in Submitters :
                 /\ sub[s].result # "QueueClosed"
                 /\ sub[s].result = "Ok" =>
                        \/ s \in handled
                        \/ \E i \in 1 .. Len(queue) : queue[i].from = s
          /\ \A r \in DOMAIN rnd :
                 /\ rnd[r].result # "QueueClosed"
                 /\ (Accepted(r) /\ rnd[r].resp = "none")
                        => (r \in Executing \/ QueuedAt(r) # {}))
    /\ [][/\ \A s \in Submitters :
                 (sub[s].pc = "send" /\ Len(queue) >= QueueCap)
                     => sub'[s] = sub[s]
          /\ \A r \in DOMAIN rnd :
                 (/\ rnd[r].pc = "send"
                  /\ ~ReceiverDropped
                  /\ Len(poolQueue) >= queue_size) => rnd'[r] = rnd[r]]_vars

\* both channels are full and a submitter of each waits for a slot
C13_Witness ==
    /\ Len(queue) = QueueCap
    /\ \E s \in Submitters : sub[s].pc = "send"
    /\ worker_count >= 1
    /\ Len(poolQueue) = queue_size
    /\ \E r \in DOMAIN rnd : rnd[r].pc = "send"

\* C14: a renderer panic does not bring the pool down. A worker never holds
\* the mutex of the receiver while it renders, so a panic leaves that mutex
\* alone; the step in which a worker panics changes no other worker and
\* drops the reply channel of its task, so that its submitter gets an error;
\* a reply channel is dropped only for the task of a panicking worker or
\* when the last worker has ended; and every accepted task is answered, by a
\* result or by the dropped channel.
C14_PanicIsContained ==
    /\ [](\A w \in DOMAIN worker :
              worker[w].pc \in {"render", "panicked"} => rxLock # w)
    /\ [][\A w \in DOMAIN worker :
              (worker[w].pc # "panicked" /\ worker'[w].pc = "panicked") =>
                  /\ \A v \in DOMAIN worker \ {w} : worker'[v] = worker[v]
                  /\ rxLock' = rxLock
                  /\ poolTx' = poolTx
                  /\ rnd'[worker[w].task].resp = "dropped"
                  /\ \A r \in DOMAIN rnd \ {worker[w].task} :
                         rnd'[r] # rnd[r] => ReceiverDropped']_vars
    /\ [][\A r \in DOMAIN rnd :
              (rnd[r].resp # "dropped" /\ rnd'[r].resp = "dropped") =>
                  \E w \in DOMAIN worker :
                      /\ worker'[w].pc = "panicked"
                      /\ worker[w].pc = "render"
                      /\ worker[w].task = r \/ ReceiverDropped']_vars
    /\ \A r \in 1 .. MaxRenders :
           (rnd[r].pc = "wait") ~> (rnd[r].resp # "none")

\* a worker has panicked, its submitter got RecvError, and another worker is
\* executing a task
C14_Witness ==
    /\ \E w \in DOMAIN worker : worker[w].pc = "panicked"
    /\ \E r \in DOMAIN rnd : rnd[r].result = "RecvError"
    /\ \E v \in DOMAIN worker : worker[v].pc = "render"

\* the step submits an invalidation read from file p
SubmitsFrom(p) ==
    /\ Len(submitted') = Len(submitted) + 1
    /\ submitted'[Len(submitted')].path = p

\* the step unlinks file p
Unlinks(p) == fsys[p].exists /\ ~fsys'[p].exists

\* C15: watcher stable-read. read_with_retry hands content on only when the
\* size of the file is the same before and after the read and the content is
\* empty or ends with a line feed; and for a file the importer writes as
\* lines without the last line feed and completes later, no invalidation is
\* submitted from it and it is not unlinked before the last line feed is
\* written.
C15_StableRead ==
    [][/\ (watcher.pc = "check" /\ watcher'.pc = "now") =>
              /\ fsys[watcher.path].exists
                     => Len(fsys[watcher.path].data) = watcher.size_before
              /\ \/ watcher.value = <<>>
                 \/ watcher.value[Len(watcher.value)] = "\n"
       /\ \A p \in Paths :
              (SubmitsFrom(p) \/ Unlinks(p)) => imp[p].stage = "done"]_vars

\* the coords of the lines of a text that parse
ValidCoords(text) ==
    { from_str(trim(lines(text)[i])).coord :
          i \in { j \in DOMAIN lines(text) :
                      /\ trim(lines(text)[j]) # <<>>
                      /\ from_str(trim(lines(text)[j])).ok } }

Delivered(p) ==
    \A coord \in ValidCoords(imp[p].text) :
        \E i \in DOMAIN submitted :
            submitted[i].path = p /\ submitted[i].coord = coord

\* C16: at-least-once delivery of expiration files. Every file that exists
\* under the watched directory with its content complete, whenever it was
\* written (before startup, between the startup walk and the installation
\* of the watcher, or afterwards), eventually has each of its valid coords
\* submitted as an Invalidate.
C16_AtLeastOnce ==
    \A p \in Paths :
        (fsys[p].exists /\ imp[p].stage = "done") ~> Delivered(p)

\* the submissions the first n lines of a content call for: one for every
\* line that, trimmed, is not empty and parses, in the order of the lines
RECURSIVE ExpectedUpTo(_, _, _, _)
ExpectedUpTo(ls, n, path, t) ==
    IF n = 0 THEN <<>>
    ELSE LET line == trim(ls[n])
             parsed == from_str(line)
         IN  ExpectedUpTo(ls, n - 1, path, t) \o
             (IF line # <<>> /\ parsed.ok
              THEN << [path |-> path, coord |-> parsed.coord,
                       invalidated_at |-> t, lineNo |-> n] >>
              ELSE <<>>)

\* the queue of the worker holds the submitted invalidations, in order
QueueMirrorsSubmitted ==
    /\ Len(queue) = Len(submitted)
    /\ \A i \in DOMAIN submitted :
           queue[i] = Message("Invalidate", 0, submitted[i].coord, 0,
                              submitted[i].invalidated_at, "")

\* C17: expiration file processing. For a stably read file exactly one
\* Invalidate is submitted for each line that, trimmed, is not empty and
\* parses as z/x/y, in file order, all with the one invalidated_at that was
\* taken after the read; lines that do not parse are skipped and the lines
\* after them are still processed; afterwards the file is unlinked and the
\* call returns, also when the file is gone already.
C17_FileProcessing ==
    /\ [](watcher.pc = "lines" =>
              /\ submitted = ExpectedUpTo(lines(watcher.value),
                                          watcher.lineNo - 1, watcher.path,
                                          watcher.invalidated_at)
              /\ watcher.invalidated_at >= watcher.read_at)
    /\ [](watcher.pc = "unlink" =>
              /\ submitted = ExpectedUpTo(lines(watcher.value),
                                          Len(lines(watcher.value)),
                                          watcher.path,
                                          watcher.invalidated_at)
              /\ watcher.invalidated_at >= watcher.read_at)
    /\ []QueueMirrorsSubmitted
    /\ [][watcher.pc = "unlink" =>
              /\ submitted' = submitted
              /\ \/ watcher' = watcher
                 \/ /\ watcher'.pc = "idle"
                    /\ ~fsys'[watcher.path].exists]_vars

\* a file of two lines, the first of which does not parse, has had its
\* second line submitted and is about to be unlinked, and is gone already
C17_Witness ==
    /\ watcher.pc = "unlink"
    /\ Len(lines(watcher.value)) = 2
    /\ ~from_str(trim(lines(watcher.value)[1])).ok
    /\ Len(submitted) = 1
    /\ submitted[1].lineNo = 2
    /\ ~fsys[watcher.path].exists

\* C18: quadkey round trip. For every coord with zoom at most the word
\* width and (zoom = 0 or x, y < 2^zoom), the encoding returns a key and the
\* decoding of that key returns the coord.
C18_RoundTrip ==
    (codec.mode = "pair" /\ codec.pc = "decoded" /\ ValidCoord(codec.a))
        => codec.back = Returned(codec.a)

\* C19: quadkey layout. The key the encoding returns for a valid coord has
\* length zoom, and its byte at level k (from 0) is
\* ((y >> (zoom-1-k)) & 1) << 1 | ((x >> (zoom-1-k)) & 1), the most
\* significant level first; the decoding maps the empty sequence to 0/0/0,
\* and a byte d to the x bit d & 1 and the y bit (d >> 1) & 1 of its level.
C19_Layout ==
    /\ (codec.mode = "pair" /\ codec.pc # "start" /\ ValidCoord(codec.a)
            /\ codec.ka.ok)
           => /\ Len(codec.ka.out) = codec.a.zoom
              /\ \A k \in 0 .. codec.a.zoom - 1 :
                     codec.ka.out[k + 1] =
                         ((codec.a.y \div (2 ^ (codec.a.zoom - 1 - k))) % 2) * 2
                         + ((codec.a.x \div (2 ^ (codec.a.zoom - 1 - k))) % 2)
    /\ (codec.mode = "bytes" /\ codec.pc = "done")
           => /\ codec.value = <<>> => codec.back = Returned(TileCoord(0, 0, 0))
              /\ codec.back.ok =>
                     /\ codec.back.out.zoom = Len(codec.value)
                     /\ \A i \in 1 .. Len(codec.value) :
                            LET up == 2 ^ (Len(codec.value) - i)
                                d == codec.value[i]
                            IN  /\ (codec.back.out.x \div up) % 2 = d % 2
                                /\ (codec.back.out.y \div up) % 2
                                       = (d \div 2) % 2

\* 2/1/2 has been encoded to the key 2, 1 and decoded again
C19_Witness ==
    /\ codec.mode = "pair"
    /\ codec.pc = "decoded"
    /\ codec.a = TileCoord(2, 1, 2)
    /\ codec.ka = Returned(<<2, 1>>)
    /\ codec.back = Returned(codec.a)

IsPrefix(k, l) == Len(k) <= Len(l) /\ SubSeq(l, 1, Len(k)) = k

\* C20: ancestry mirrors the quadkey prefix. For all valid coords a and b,
\* a.is_ancestor_of(b) holds exactly when the key of a is a prefix of the
\* key of b, the keys are equal exactly when a = b, and the repeated parent()
\* from b reaches a exactly when a is an ancestor of b.
C20_AncestryIsPrefix ==
    (codec.mode = "pair" /\ codec.pc = "done" /\ ValidCoord(codec.a)
         /\ ValidCoord(codec.b))
        => /\ codec.ka.ok
           /\ codec.kb.ok
           /\ is_ancestor_of(codec.a, codec.b)
                  <=> IsPrefix(codec.ka.out, codec.kb.out)
           /\ codec.ka.out = codec.kb.out <=> codec.a = codec.b
           /\ codec.reached <=> is_ancestor_of(codec.a, codec.b)

\* the coord and what repeated parent() reaches from it
RECURSIVE SelfAndAncestors(_)
SelfAndAncestors(c) ==
    IF parent(c) = NoCoord THEN {c} ELSE {c} \cup SelfAndAncestors(parent(c))

\* a call of handle_save_tile is the step
SaveStep == call'.op = "save" /\ nOps' = nOps + 1

\* C21: boundary of the anti-stale guard. handle_save_tile discards a save
\* whose render_started_at equals the registered invalidated_at of the save
\* coord or of one of its ancestors: no file and no index line is written.
C21_EqualInstantIsStale ==
    [][(/\ SaveStep
        /\ \E c \in SelfAndAncestors(call'.coord) \cap DOMAIN register :
               register[c] = call'.t)
           => /\ files' = files
              /\ index' = index
              /\ register' = register
              /\ call'.out = "dropped"]_vars

\* a save was discarded on account of a proper ancestor invalidated at the
\* very instant its render started, nothing else of its ancestry being
\* registered
C21_Witness ==
    /\ call.op = "save"
    /\ call.out = "dropped"
    /\ call.coord \notin DOMAIN register
    /\ \E c \in (SelfAndAncestors(call.coord) \ {call.coord}) \cap DOMAIN register :
           register[c] = call.t
    /\ \A c \in SelfAndAncestors(call.coord) \cap DOMAIN register :
           register[c] = call.t

\* C22: index completeness. Between two messages every cache file on disk
\* has a line in an index file that parses to its coord and scale, whatever
\* the zoom of the tile.
C22_IndexComplete ==
    \A c \in Coords, s \in Scales :
        tile_cache_path(c, s) \in DOMAIN files
            => \E e \in IndexLines(index) :
                   /\ parse_index_entry(e).ok
                   /\ parse_index_entry(e).coord = c
                   /\ parse_index_entry(e).scale = s

\* serve_tile enqueues a SaveTile in this step
EnqueuesSave == serve.pc = "save" /\ Len(queue') = Len(queue) + 1

\* C23: render_started_at in the mediator. For every request that reaches
\* the renderer, render_started_at is read after the cache read has missed
\* and before the render is submitted, so it is not later than the moment
\* the renderer starts to read, and it is what the SaveTile carries.
C23_RenderStartedAtOrdering ==
    /\ [](serve.render_started_at # NoTime =>
              /\ serve.cache # "hit"
              /\ (serve.state.tile_cache_base_path /\ serve.state.serve_cached)
                     => /\ serve.cache = "miss"
                        /\ serve.cache_read_at <= serve.render_started_at)
    /\ [](serve.renders > 0 =>
              /\ serve.render_started_at # NoTime
              /\ serve.render_started_at <= serve.submitted_at)
    /\ [](serve.render_read_at # NoTime =>
              /\ serve.renders > 0
              /\ serve.render_started_at <= serve.render_read_at)
    /\ [][EnqueuesSave =>
              /\ queue'[Len(queue')].t = serve.render_started_at
              /\ queue'[Len(queue')].t <= serve.render_read_at]_vars

\* a save was enqueued for a request whose cache read, capture of
\* render_started_at and start of the render happened at three instants
C23_Witness ==
    /\ serve.save = "Ok"
    /\ serve.cache = "miss"
    /\ serve.cache_read_at < serve.render_started_at
    /\ serve.render_started_at < serve.render_read_at

\* the request at hand is one serve_tile rejects
Rejected ==
    \/ serve.coord.zoom > config.max_zoom
    \/ serve.scale \notin Scales
    \/ serve.ext \notin {"none", "jpg", "jpeg"}

\* C24: mediator save protocol. serve_tile enqueues a SaveTile exactly when
\* the render succeeded and there are a cache root and a tile worker; it
\* submits no render and enqueues no save for a rejected request, for a tile
\* outside the coverage (answered with the gray JPEG) and for a cache hit;
\* and a QueueClosed of the enqueue leaves the reply 200 with the rendered
\* bytes.
C24_SaveProtocol ==
    /\ [](serve.pc = "done" =>
              /\ Rejected =>
                     /\ serve.status \in {400, 404}
                     /\ serve.renders = 0
                     /\ serve.save = "none"
              /\ (~Rejected /\ serve.relation = "Outside") =>
                     /\ serve.status = 200
                     /\ serve.body = "GRAY_TILE_JPEG"
                     /\ serve.renders = 0
                     /\ serve.save = "none"
              /\ serve.cache = "hit" =>
                     /\ serve.status = 200
                     /\ serve.renders = 0
                     /\ serve.save = "none"
              /\ serve.save # "none" <=>
                     /\ serve.rendered = "jpegA"
                     /\ serve.state.tile_cache_base_path
                     /\ serve.state.tile_worker
              /\ serve.rendered = "jpegA" =>
                     /\ serve.status = 200
                     /\ serve.body = serve.rendered)
    /\ [][/\ Len(queue') > Len(queue) =>
                 /\ EnqueuesSave
                 /\ serve'.save = "Ok"
                 /\ queue'[Len(queue')] =
                        Message("SaveTile", 0, serve.coord, serve.scale,
                                serve.render_started_at, serve.rendered)
          /\ (serve.pc = "save" /\ serve'.pc = "done") =>
                 (serve'.save = "Ok" <=> Len(queue') = Len(queue) + 1)]_vars

\* the tile worker's queue was closed when the rendered tile was to be
\* saved, and the reply is the 200 with the rendered bytes
C24_Witness ==
    /\ serve.pc = "done"
    /\ serve.save = "QueueClosed"
    /\ serve.status = 200
    /\ serve.body = "jpegA"

\* a call of handle_invalidation is the step
InvalidateStep == call'.op = "invalidate" /\ nOps' = nOps + 1

\* C25: the register keeps the maximum. handle_invalidation(coord, t) leaves
\* register[coord] at the larger of t and what was stored (t when nothing
\* was), so an older timestamp never lowers the entry and a series of calls
\* without a prune in between leaves the maximum of what was supplied; the
\* entries of the other coords are unchanged.
C25_RegisterKeepsMax ==
    [][InvalidateStep =>
           LET coord == call'.coord
               t == call'.t
           IN  /\ DOMAIN register' = DOMAIN register \cup {coord}
               /\ register'[coord] =
                      IF coord \in DOMAIN register /\ register[coord] > t
                      THEN register[coord] ELSE t
               /\ \A c \in DOMAIN register \ {coord} :
                      register'[c] = register[c]]_vars

\* an invalidation older than the stored one has been handled
C25_Witness ==
    /\ call.op = "invalidate"
    /\ call.coord \in DOMAIN register
    /\ register[call.coord] > call.t
    /\ Cardinality(DOMAIN register) > 1

\* the instants the clock of the model shows
ClockValues == { k * ClockStep : k \in 0 .. (MaxClock \div ClockStep) }

\* the actor receives a message in this step
ActorStep == Len(queue') = Len(queue) - 1

\* the entries a prune at now with ttl leaves: those not older than ttl
Kept(reg, now, ttl) == { c \in DOMAIN reg : ~(now - reg[c] > ttl) }

\* C26: register pruning. prune_invalidation_register(now, ttl) removes
\* exactly the entries with now - ts > ttl and keeps the others unchanged,
\* those with ts after now included; the actor loop prunes with ttl = 60 s
\* only when now - last_prune >= 30 s, once, before the message is
\* dispatched, and then sets last_prune = now.
C26_RegisterPruning ==
    /\ [](\A now \in ClockValues, ttl \in ClockValues :
              LET pruned == prune_invalidation_register(register, now, ttl)
              IN  /\ DOMAIN pruned = Kept(register, now, ttl)
                  /\ \A c \in DOMAIN pruned : pruned[c] = register[c])
    /\ [][ActorStep =>
              LET message == Head(queue)
                  due == clock - last_prune
                             >= INVALIDATION_REGISTER_PRUNE_INTERVAL
                  kept == IF due
                          THEN Kept(register, clock, INVALIDATION_REGISTER_TTL)
                          ELSE DOMAIN register
              IN  /\ last_prune' = IF due THEN clock ELSE last_prune
                  /\ DOMAIN register' =
                         IF message.kind = "Invalidate"
                         THEN kept \cup {message.coord} ELSE kept
                  /\ \A c \in kept :
                         c # message.coord \/ message.kind # "Invalidate"
                             => register'[c] = register[c]
                  /\ message.kind = "Invalidate" =>
                         register'[message.coord] =
                             IF message.coord \in kept
                                /\ register[message.coord] > message.t
                             THEN register[message.coord] ELSE message.t]_vars

\* a prune has just removed an entry and kept one that is exactly ttl old
C26_Witness ==
    /\ last_prune = clock
    /\ \E c \in DOMAIN processed : c \notin DOMAIN register
    /\ \E c \in DOMAIN register :
           clock - register[c] = INVALIDATION_REGISTER_TTL

\* C27: the actor never fails upward. Whatever the message, an Invalidate
\* of a coord with x or y out of range for its zoom included, the handler
\* returns without a panic and the actor goes on draining its queue.
C27_ActorNeverFails == thread # "panicked"

\* the lines of an index file that process_index_tile keeps for a target
RetainedLines(contents, target) ==
    SelectSeq(contents,
              LAMBDA e : ~(/\ parse_index_entry(e).ok
                           /\ is_ancestor_of(target, parse_index_entry(e).coord)))

\* C28: when the purge of handle_invalidation removes some but not all
\* lines of an index file, the file afterwards consists of exactly the
\* retained lines, and every retained line that could be parsed before the
\* rewrite can be parsed after it.
C28_RewriteKeepsRetained ==
    [][(call'.op = "invalidate" /\ call'.coord.zoom <= config.max_zoom)
       => \A f \in DOMAIN index :
              LET retained == RetainedLines(index[f], call'.coord) IN
              (retained # index[f] /\ retained # <<>>)
              => /\ index'[f] = retained
                 /\ \A i \in 1 .. Len(retained) :
                        parse_index_entry(retained[i]).ok
                        => /\ i <= Len(index'[f])
                           /\ parse_index_entry(index'[f][i]).ok]_vars

\* C29: unlink loses no invalidation. Whenever process_tile_expiration_file
\* unlinks a file, every valid coord line the file holds at that moment has
\* been accepted by the queue of the worker, lines the importer appended
\* between the stable read and the unlink included.
C29_UnlinkLosesNothing ==
    [][(/\ watcher.pc = "unlink"
        /\ watcher'.pc # "unlink"
        /\ fsys[watcher.path].exists)
       => \A coord \in ValidCoords(fsys[watcher.path].data) :
              \E i \in DOMAIN submitted :
                  /\ submitted[i].path = watcher.path
                  /\ submitted[i].coord = coord]_vars

\* the call of shutdown_tile_workers that took the watcher has stopped and
\* joined its thread
WatcherJoined ==
    \E i \in Shutdowns :
        stop.inv[i].watcher /\ stop.inv[i].pc \in {"worker", "returned"}

\* C30: shutdown ordering of watcher and actor. In every interleaving of the
\* two calls of shutdown_tile_workers the watcher thread has been stopped
\* and joined before the channel of the tile-processing worker is closed,
\* so the watcher never gets QueueClosed for a line of an expiration file;
\* and start() shuts the render pool down only after the thread of the
\* tile-processing worker has exited.
C30_ShutdownOrdering ==
    /\ ~tx => WatcherJoined
    /\ stop.enqueue # "QueueClosed"
    /\ (\E c \in PoolShutdowns : poolShut[c] # "idle") => thread = "exited"
====
